---- MODULE Spec2Model ----
(***************************************************************************)
(* Presence fabric of react-native-node-js-user-status.                    *)
(*                                                                         *)
(*   - the presence registry of backend-wo-ts/src/services/presence.mjs    *)
(*     (TTL keys owned by a server id, owner-guarded scripts);             *)
(*   - the legacy registry (EXISTS-then-SET setOnline, no owner);          *)
(*   - the WebSocket server of backend-wo-ts/src/ws/server.mjs             *)
(*     (auth, heartbeat / pong refresh, subscribe, disconnect).            *)
(*                                                                         *)
(* Time is in milliseconds, as Date.now() and the store's expiry are.      *)
(***************************************************************************)
EXTENDS Integers, Sequences, FiniteSets, Bags, TLC

\* ------------------------------------------------------------------ bounds

\* The clock advances in steps of QuantumMs.
QuantumMs == 1000

\* Clock steps explored by the registry specifications.
MaxRegistryClock == 2

\* Concurrent calls of one registry operation in flight between two commands.
NumCalls == 1

\* Concurrent setOnline calls of the legacy registry.
NumLegacyCalls == 2

\* Suspended handlers beyond which the clients send no further request.
MaxTasks == 1

\* The same bound in the runs where the handlers of one socket interleave.
MaxSessionTasks == 2

\* Subscribe calls of one socket that reach the rate limiter.
MaxFocusCalls == 3

\* The clock step of the focus specification and the steps it explores.
FocusQuantumMs == 40000
MaxFocusClock == 2

\* Heartbeat intervals explored by the heartbeat specification.
MaxHeartbeatTicks == 7

\* ------------------------------------------------------------ configuration

\* The heartbeat interval when config.heartbeatIntervalMs is 0.
DefaultHeartbeatMs == 30000

\* The shortest cooldown between two refreshes of one socket.
MinRefreshEveryMs == 10000

\* The length of a rate-limit window.
RateWindowMs == 60000

\* MAX_FOCUS_PER_CLIENT and FOCUS_RATE_LIMIT_PER_MINUTE of the focus runs.
FocusMaxFocusPerClient == 2
FocusRateLimitPerMinute == 2

\* MAX_CONNECTIONS_PER_IP of the connection runs.
ConnMaxConnectionsPerIp == 2

\* PRESENCE_TTL_SECONDS of the modelled run (config.presenceTtlSeconds);
\* the registry specifications run with a short TTL.
RegistryTtlSeconds == 1

\* The defaults of config.mjs.
DefaultHeartbeatIntervalMs == 45000
DefaultPresenceTtlSeconds == 120
DefaultMaxFocusPerClient == 100
DefaultFocusRateLimitPerMinute == 60
DefaultMaxConnectionsPerIp == 10

\* The numeric properties of the config object; it has no others.
ConfigOf(ttl, hb, maxFocus, rate, maxConn) ==
    [heartbeatIntervalMs |-> hb, presenceTtlSeconds |-> ttl,
     maxFocusPerClient |-> maxFocus, focusRateLimitPerMinute |-> rate,
     maxConnectionsPerIp |-> maxConn]

\* PRESENCE_TTL_SECONDS and HEARTBEAT_INTERVAL_MS of the heartbeat runs: every
\* pair with heartbeat < ttl / 2.
TtlChoices == {4, 10, 20}
HeartbeatChoices == {1000, 5000}
HeartbeatConfigs ==
    {ConfigOf(c[1], c[2], DefaultMaxFocusPerClient, DefaultFocusRateLimitPerMinute,
              DefaultMaxConnectionsPerIp) :
        c \in {d \in TtlChoices \X HeartbeatChoices : 2 * d[2] < d[1] * 1000}}

\* ------------------------------------------------------------------ values

Null == "null"
NoTime == -1

Servers == {"S1", "S2"}

\* Raw e-mail inputs, as sequences of characters.
EmailA    == <<"a", "@", "b", ".", "c">>
EmailAraw == <<" ", "A", "@", "b", ".", "c">>
EmailD    == <<"d", "@", "b", ".", "c">>
EmailE    == <<"e", "@", "b", ".", "c">>
EmailBad  == <<"a", "@", "b">>

\* ------------------------------------------------------- pure functions

IsSpace(c) == c \in {" ", "\t", "\n"}

RECURSIVE TrimLeft(_)
TrimLeft(s) ==
    IF s # <<>> /\ IsSpace(Head(s)) THEN TrimLeft(Tail(s)) ELSE s

RECURSIVE TrimRight(_)
TrimRight(s) ==
    IF s # <<>> /\ IsSpace(s[Len(s)]) THEN TrimRight(SubSeq(s, 1, Len(s) - 1)) ELSE s

LowerChar(c) ==
    CASE c = "A" -> "a"
      [] c = "B" -> "b"
      [] c = "C" -> "c"
      [] c = "D" -> "d"
      [] c = "E" -> "e"
      [] OTHER -> c

\* String(email).trim().toLowerCase()
normalizeEmail(email) ==
    LET t == TrimRight(TrimLeft(email))
    IN  [i \in 1..Len(t) |-> LowerChar(t[i])]

\* /^[^\s@]+@[^\s@]+\.[^\s@]+$/
isValidEmail(email) ==
    LET n    == Len(email)
        Ok(i, j) == \A k \in i..j : ~IsSpace(email[k]) /\ email[k] # "@"
    IN  \E a \in 2..(n - 3) :
            /\ email[a] = "@"
            /\ Ok(1, a - 1)
            /\ \E d \in (a + 2)..(n - 1) :
                   /\ email[d] = "."
                   /\ Ok(a + 1, d - 1)
                   /\ Ok(d + 1, n)

RegistryEmails == {EmailAraw}
AllEmails == {EmailA, EmailAraw, EmailD, EmailE, EmailBad}
UserKeys == {normalizeEmail(e) : e \in AllEmails}

\* ----------------------------------------------------------------- state

VARIABLES
    now,        \* the clock (Date.now() and the store's clock)
    config,     \* the config object of the run
    presence,   \* presence:user:{email} -> [val, exp]: owner server id and expiry
    lastSeen,   \* presence:lastseen:{email} -> ms timestamp or NoTime
    calls,      \* registry calls in flight between two of their commands (a bag)
    ev,         \* the last command the store ran on a presence key
    prevEv,     \* the command before it
    lastTouch,  \* per user and server: time of its last claim or successful refresh
    claimedBy,  \* per user: the server of the most recent claim_online
    flips,      \* legacy registry: setOnline calls that returned true in this online period
    ws,         \* per socket: readyState, isAlive, userKey, nextPresenceRefreshAt, ...
    clients,    \* userKey -> set of sockets (or no entry)
    subscriptions,      \* socket -> set of e-mails it watches (or no entry)
    watchedBy,          \* e-mail -> set of sockets watching it
    connectionsByIp,    \* connections counted for the one client address
    subscribeRateLimit, \* socket -> { count, resetAt } (or no entry)
    watchers,   \* presence:watchers:{email} -> set of server ids
    channel,    \* messages published on the presence channel, not yet delivered
    tasks,      \* handlers suspended at an await (a bag)
    reply,      \* per socket: the last message sent to it (or its close code)
    nextHeartbeatAt,    \* when the heartbeat interval fires next
    focusLog,   \* per socket: time and outcome of each subscribe call
    wss,        \* single-server backend, per socket: readyState, email, last message time
    clientsByEmail,     \* single-server backend: e-mail -> its socket (or no entry)
    usersAll,   \* users:all, the registered e-mails
    lastKnownStatus,    \* sweeper: e-mail -> last observed status (or no entry)
    broadcast   \* single-server backend: the last broadcastPresenceUpdate call

storeVars == <<presence, lastSeen>>
histVars == <<ev, prevEv, lastTouch, claimedBy>>
basicVars == <<wss, clientsByEmail, usersAll, lastKnownStatus, broadcast>>
serverVars == <<ws, clients, subscriptions, watchedBy, connectionsByIp, subscribeRateLimit,
                watchers, channel, tasks, reply, nextHeartbeatAt, focusLog, basicVars>>

vars == <<now, config, storeVars, calls, histVars, flips, serverVars>>

Absent == [val |-> Null, exp |-> 0]

TtlMs == config.presenceTtlSeconds * 1000

\* ------------------------------------------------------- store commands

SetNxGet(p, serverId, t, ttlMs) ==
    [key |-> IF p.val = Null THEN [val |-> serverId, exp |-> t + ttlMs] ELSE p,
     prev |-> p.val]

\* SET key serverId EX ttl GET: writes value and expiry, returns the previous value.
SetExGet(p, serverId, t, ttlMs) ==
    [key |-> [val |-> serverId, exp |-> t + ttlMs], prev |-> p.val]

RefreshNoOwnerCheck(p, serverId, t, ttlMs) ==
    IF p.val # Null
        THEN [key |-> [val |-> p.val, exp |-> t + ttlMs], ret |-> 1]
        ELSE [key |-> p, ret |-> 0]

RefreshNeverExtends(p, serverId, t, ttlMs) ==
    IF p.val = serverId
        THEN [key |-> p, ret |-> 1]
        ELSE [key |-> p, ret |-> 0]

\* if GET(key) == ARGV[1] then return EXPIRE(key, ttl) else return 0
RefreshIfOwner(p, serverId, t, ttlMs) ==
    IF p.val = serverId
        THEN [key |-> [val |-> p.val, exp |-> t + ttlMs], ret |-> 1]
        ELSE [key |-> p, ret |-> 0]

DeleteNoOwnerCheck(p, serverId) ==
    IF p.val # Null
        THEN [key |-> Absent, ret |-> 1]
        ELSE [key |-> p, ret |-> 0]

DeleteNeverMatches(p, serverId) == [key |-> p, ret |-> 0]

DeleteAlwaysReportsOne(p, serverId) == [key |-> Absent, ret |-> 1]

\* if GET(key) == ARGV[1] then return DEL(key) else return 0
DeleteIfOwner(p, serverId) ==
    IF p.val = serverId
        THEN [key |-> Absent, ret |-> 1]
        ELSE [key |-> p, ret |-> 0]

\* EXISTS presence:user:{email}
isOnline(email) == presence[normalizeEmail(email)].val # Null

\* The store drops a key once the clock has passed its expiry.
Expire(p, t) == IF p.val # Null /\ t > p.exp THEN Absent ELSE p

\* -------------------------------------------------------------- history

NoEvent ==
    [op |-> "none", u |-> <<>>, s |-> Null, ok |-> FALSE, t |-> NoTime,
     bval |-> Null, same |-> TRUE, within |-> FALSE]

NoPrevEvent == [op |-> "none", u |-> <<>>, s |-> Null, ok |-> FALSE, bval |-> Null]

\* One command on a presence key: who ran what and when, the result given to the
\* caller, the owner before it, whether it left the key as it was, and whether it
\* ran no later than the TTL after the command before it.  The key after it is
\* presence[u] for as long as the clock has not moved (t = now).
Event(op, u, s, ok, before, after) ==
    [op |-> op, u |-> u, s |-> s, ok |-> ok, t |-> now,
     bval |-> before.val, same |-> (after = before),
     within |-> (ev.op # "none" /\ now - ev.t <= TtlMs)]

Record(e) ==
    /\ ev' = e
    /\ prevEv' = [op |-> ev.op, u |-> ev.u, s |-> ev.s, ok |-> ev.ok, bval |-> ev.bval]

\* -------------------------------------------------- registry operations

\* A call between two of its commands, with what its continuation still uses.
InFlight(op, u, s) == [op |-> op, u |-> u, s |-> s]

\* The calls of operation op that are in flight.
CallsOf(op) == [c \in {d \in DOMAIN calls : d.op = op} |-> calls[c]]

CanCall(op) == BagCardinality(CallsOf(op)) < NumCalls

\* setOnline, first command: SET ... EX ttl GET.
SetOnlineSet(email, serverId) ==
    LET u == normalizeEmail(email)
        r == SetExGet(presence[u], serverId, now, TtlMs)
    IN  /\ CanCall("setOnline")
        /\ presence' = [presence EXCEPT ![u] = r.key]
        /\ calls' = calls (+) SetToBag({InFlight("setOnline", u, Null)})
        /\ Record(Event("setOnline", u, serverId, r.prev = Null, presence[u], r.key))
        /\ lastTouch' = [lastTouch EXCEPT ![u][serverId] = now]
        /\ claimedBy' = [claimedBy EXCEPT ![u] = serverId]
        /\ UNCHANGED <<now, config, lastSeen, flips, serverVars>>

\* setOnline, second command: GET lastSeen; returns {statusChanged, lastSeen}.
SetOnlineGetLastSeen(c) ==
    /\ BagIn(c, calls)
    /\ c.op = "setOnline"
    /\ calls' = calls (-) SetToBag({c})
    /\ UNCHANGED <<now, config, presence, lastSeen, ev, prevEv, lastTouch, claimedBy, flips, serverVars>>

\* refreshPresence: one scripted command.
RefreshPresence(email, serverId) ==
    LET u == normalizeEmail(email)
        r == RefreshIfOwner(presence[u], serverId, now, TtlMs)
    IN  /\ presence' = [presence EXCEPT ![u] = r.key]
        /\ Record(Event("refresh", u, serverId, r.ret = 1, presence[u], r.key))
        /\ lastTouch' = IF r.ret = 1
                            THEN [lastTouch EXCEPT ![u][serverId] = now]
                            ELSE lastTouch
        /\ UNCHANGED <<now, config, lastSeen, calls, claimedBy, flips, serverVars>>

\* safeClearIfOwned, first command: updateLastSeen.
SafeClearUpdateLastSeen(email, serverId) ==
    LET u == normalizeEmail(email)
    IN  /\ CanCall("safeClear")
        /\ lastSeen' = [lastSeen EXCEPT ![u] = now]
        /\ calls' = calls (+) SetToBag({InFlight("safeClear", u, serverId)})
        /\ UNCHANGED <<now, config, presence, ev, prevEv, lastTouch, claimedBy, flips, serverVars>>

\* safeClearIfOwned, second command: the delete script; returns res === 1.
SafeClearScript(c) ==
    LET r == DeleteIfOwner(presence[c.u], c.s)
    IN  /\ BagIn(c, calls)
        /\ c.op = "safeClear"
        /\ presence' = [presence EXCEPT ![c.u] = r.key]
        /\ Record(Event("safeClear", c.u, c.s, r.ret = 1, presence[c.u], r.key))
        /\ calls' = calls (-) SetToBag({c})
        /\ UNCHANGED <<now, config, lastSeen, lastTouch, claimedBy, flips, serverVars>>

\* Time passes; the store expires the keys whose TTL has run out.
RegistryTick ==
    /\ now + QuantumMs <= MaxRegistryClock * QuantumMs
    /\ now' = now + QuantumMs
    /\ presence' = [u \in UserKeys |-> Expire(presence[u], now + QuantumMs)]
    /\ UNCHANGED <<config, lastSeen, calls, ev, prevEv, lastTouch, claimedBy, flips, serverVars>>

\* ------------------------------------------------------ server values

Sockets == {"w1", "w2", "w3"}

\* this.serverId of the modelled WebSocket server
ServerId == "S1"

\* ws.userKey = null
NoKey == <<>>

NoSocket ==
    [readyState |-> "none", isAlive |-> FALSE, userKey |-> NoKey,
     nextPresenceRefreshAt |-> 0, pinged |-> FALSE, answers |-> FALSE]

\* Map entries that are not there.
NoClients == [has |-> FALSE, set |-> {}]
NoSubs == [has |-> FALSE, set |-> {}]
NoLimit == [has |-> FALSE, count |-> 0, resetAt |-> 0]

NoReply == [type |-> "none", detail |-> "", email |-> <<>>]

\* A socket of the single-server backend before its connection.
NoBasicSocket == [readyState |-> "none", email |-> NoKey, lastHeard |-> 0, late |-> FALSE]

NoBroadcast == [email |-> NoKey, online |-> FALSE, by |-> "none", to |-> {}, flip |-> FALSE]

\* lastKnownStatus.get(email): undefined, true or false.
Unknown == "undefined"
Yes == "true"
No == "false"

InitBasicServer ==
    /\ wss = [w \in Sockets |-> NoBasicSocket]
    /\ clientsByEmail = [u \in UserKeys |-> Null]
    /\ usersAll = {}
    /\ lastKnownStatus = [u \in UserKeys |-> Unknown]
    /\ broadcast = NoBroadcast

InitServer ==
    /\ InitBasicServer
    /\ ws = [w \in Sockets |-> NoSocket]
    /\ clients = [u \in UserKeys |-> NoClients]
    /\ subscriptions = [w \in Sockets |-> NoSubs]
    /\ watchedBy = [u \in UserKeys |-> {}]
    /\ connectionsByIp = 0
    /\ subscribeRateLimit = [w \in Sockets |-> NoLimit]
    /\ watchers = [u \in UserKeys |-> {}]
    /\ channel = {}
    /\ tasks = EmptyBag
    /\ reply = [w \in Sockets |-> NoReply]
    /\ focusLog = [w \in Sockets |-> <<>>]

InitStore ==
    /\ now = 0
    /\ presence = [u \in UserKeys |-> Absent]
    /\ lastSeen = [u \in UserKeys |-> NoTime]
    /\ ev = NoEvent
    /\ prevEv = NoPrevEvent
    /\ lastTouch = [u \in UserKeys |-> [s \in Servers |-> NoTime]]
    /\ claimedBy = [u \in UserKeys |-> Null]

Init ==
    /\ InitStore
    /\ InitServer
    /\ config = ConfigOf(RegistryTtlSeconds, DefaultHeartbeatIntervalMs,
                         DefaultMaxFocusPerClient, DefaultFocusRateLimitPerMinute,
                         DefaultMaxConnectionsPerIp)
    /\ calls = EmptyBag
    /\ flips = [u \in UserKeys |-> 0]
    /\ nextHeartbeatAt = 0

Next ==
    \/ \E e \in RegistryEmails, s \in Servers : SetOnlineSet(e, s)
    \/ \E c \in DOMAIN calls : SetOnlineGetLastSeen(c)
    \/ \E e \in RegistryEmails, s \in Servers : RefreshPresence(e, s)
    \/ \E e \in RegistryEmails, s \in Servers : SafeClearUpdateLastSeen(e, s)
    \/ \E c \in DOMAIN calls : SafeClearScript(c)
    \/ RegistryTick

Spec == Init /\ [][Next]_vars

\* ------------------------------------------------------ legacy registry
\* The connection-count backend: presence:{email} holds '1', no owner.

LegacyEmails == {EmailA, EmailAraw, EmailD}

\* setOnline, first command: EXISTS presence:{email}.
LegacySetOnlineExists(email) ==
    LET u == normalizeEmail(email)
    IN  /\ BagCardinality(calls) < NumLegacyCalls
        /\ calls' = calls (+) SetToBag({[op |-> "legacySetOnline", u |-> u,
                                         wasOnline |-> IF isOnline(u) THEN 1 ELSE 0]})
        /\ UNCHANGED <<now, config, storeVars, histVars, flips, serverVars>>

\* setOnline, second command: SET presence:{email} '1' EX ttl; returns wasOnline === 0.
LegacySetOnlineSet(c) ==
    LET ret == (c.wasOnline = 0)
        n   == IF isOnline(c.u) THEN flips[c.u] ELSE 0
    IN  /\ BagIn(c, calls)
        /\ c.op = "legacySetOnline"
        /\ presence' = [presence EXCEPT ![c.u] = [val |-> "1", exp |-> now + TtlMs]]
        /\ flips' = [flips EXCEPT ![c.u] = IF ret THEN n + 1 ELSE n]
        /\ calls' = calls (-) SetToBag({c})
        /\ UNCHANGED <<now, config, lastSeen, histVars, serverVars>>

\* Time passes; the store expires the keys whose TTL has run out.
LegacyTick ==
    /\ now + QuantumMs <= MaxRegistryClock * QuantumMs
    /\ now' = now + QuantumMs
    /\ presence' = [u \in UserKeys |-> Expire(presence[u], now + QuantumMs)]
    /\ UNCHANGED <<config, lastSeen, calls, histVars, flips, serverVars>>

NextLegacy ==
    \/ \E e \in LegacyEmails : LegacySetOnlineExists(e)
    \/ \E c \in DOMAIN calls : LegacySetOnlineSet(c)
    \/ LegacyTick

SpecLegacy == Init /\ [][NextLegacy]_vars

\* C3: in one online period of a user (from the key's creation to its expiry)
\* at most one claim_online call reports became_online = true.
C3_OneBecameOnline == \A u \in UserKeys : flips[u] <= 1

\* ------------------------------------------------------ JavaScript values
\* A number, or what a missing property and arithmetic on it give.

Num(n) == [k |-> "number", n |-> n]
Undefined == [k |-> "undefined", n |-> 0]
NaN == [k |-> "NaN", n |-> 0]

\* config.<name>: undefined when the config object has no such property.
ConfigGet(name) == IF name \in DOMAIN config THEN Num(config[name]) ELSE Undefined

\* a >= b, a <= b: false when either side is not a number.
JsGe(a, b) == a.k = "number" /\ b.k = "number" /\ a.n >= b.n
JsLe(a, b) == a.k = "number" /\ b.k = "number" /\ a.n <= b.n

\* a - b: NaN when either side is not a number.
JsSub(a, b) == IF a.k = "number" /\ b.k = "number" THEN Num(a.n - b.n) ELSE NaN

Max(a, b) == IF a >= b THEN a ELSE b

\* ------------------------------------------------------ WebSocket server

srvOther == <<config, calls, histVars, flips, basicVars>>

\* A handler suspended at an await, with the locals its continuation uses.
Task(op, w, u, flag, keys, servers, t) ==
    [op |-> op, w |-> w, u |-> u, flag |-> flag, keys |-> keys, servers |-> servers, t |-> t]

\* The clients send a request while fewer than MaxTasks handlers are suspended.
CanRequest == BagCardinality(tasks) < MaxTasks

\* The same with room for two handlers of one socket suspended together.
CanRequestMore == BagCardinality(tasks) < MaxSessionTasks

Spawn(tk, t) == tk (+) SetToBag({t})
Finish(tk, t) == tk (-) SetToBag({t})

\* ws.send(JSON.stringify({type, ...})): reaches the client of an open socket.
Send(r, w, type, detail) ==
    IF ws[w].readyState = "open"
        THEN [r EXCEPT ![w] = [type |-> type, detail |-> detail, email |-> <<>>]]
        ELSE r

\* ws.close(1008, 'Too many connections')
PolicyClose == [type |-> "close", detail |-> "1008 Too many connections", email |-> <<>>]

\* handleConnection, with checkConnectionLimit; answers tells whether the client
\* will answer the server's pings.
Connect(w, answers) ==
    /\ ws[w].readyState = "none"
    /\ IF JsGe(Num(connectionsByIp), ConfigGet("maxConnectionsPerIp"))
          THEN /\ ws' = [ws EXCEPT ![w].readyState = "closed"]
               /\ reply' = [reply EXCEPT ![w] = PolicyClose]
               /\ UNCHANGED connectionsByIp
          ELSE /\ connectionsByIp' = connectionsByIp + 1
               /\ ws' = [ws EXCEPT ![w] = [readyState |-> "open", isAlive |-> TRUE,
                                            userKey |-> NoKey, nextPresenceRefreshAt |-> 0,
                                            pinged |-> FALSE, answers |-> answers]]
               /\ UNCHANGED reply
    /\ UNCHANGED <<now, storeVars, srvOther, clients, subscriptions, watchedBy,
                   subscribeRateLimit, watchers, channel, tasks, nextHeartbeatAt,
                   focusLog>>

DetachedKeepsEmptySet(w) ==
    IF ws[w].userKey = NoKey \/ ~clients[ws[w].userKey].has
        THEN clients
        ELSE [clients EXCEPT ![ws[w].userKey].set = @ \ {w}]

\* detachClient: the clients map without ws; an entry left empty is deleted.
Detached(w) ==
    IF ws[w].userKey = NoKey \/ ~clients[ws[w].userKey].has
        THEN clients
        ELSE IF clients[ws[w].userKey].set \ {w} = {}
        THEN [clients EXCEPT ![ws[w].userKey] = NoClients]
        ELSE [clients EXCEPT ![ws[w].userKey].set = @ \ {w}]

\* handleAuth up to its first await: validation, re-keying of the socket, and the
\* SET ... GET of setOnline.
HandleAuth(w, email) ==
    LET u == normalizeEmail(email)
        r == SetExGet(presence[u], ServerId, now, TtlMs)
    IN  /\ ws[w].readyState = "open"
        /\ IF email = <<>>
              THEN /\ reply' = Send(reply, w, "error", "Email is required")
                   /\ UNCHANGED <<ws, clients, presence, tasks>>
              ELSE IF ~isValidEmail(u)
              THEN /\ reply' = Send(reply, w, "error", "Invalid email format")
                   /\ UNCHANGED <<ws, clients, presence, tasks>>
              ELSE /\ ws' = [ws EXCEPT ![w].userKey = u]
                   /\ clients' = [Detached(w) EXCEPT
                                     ![u] = [has |-> TRUE, set |-> @.set \cup {w}]]
                   /\ presence' = [presence EXCEPT ![u] = r.key]
                   /\ tasks' = Spawn(tasks, Task("setOnline", w, u, r.prev = Null, {}, {}, 0))
                   /\ UNCHANGED reply
        /\ UNCHANGED <<now, lastSeen, srvOther, subscriptions, watchedBy, connectionsByIp,
                       subscribeRateLimit, watchers, channel, nextHeartbeatAt, focusLog>>

\* setOnline resumed after SET: statusChanged = (prev === null); GET lastseen.
AuthGetLastSeen(t) ==
    /\ BagIn(t, tasks)
    /\ t.op = "setOnline"
    /\ tasks' = Spawn(Finish(tasks, t), Task("auth", t.w, t.u, t.flag, {}, {}, lastSeen[t.u]))
    /\ UNCHANGED <<now, storeVars, srvOther, ws, clients, subscriptions, watchedBy,
                   connectionsByIp, subscribeRateLimit, watchers, channel, reply,
                   nextHeartbeatAt, focusLog>>

\* publishTargetedPresenceUpdate up to its await: SMEMBERS of the watchers key
\* (the key of a null userKey, "null", has no watchers).
PublishTask(w, u, online) ==
    Task("publish", w, u, online, {}, IF u = NoKey THEN {} ELSE watchers[u], 0)

\* handleAuth resumed: auth:ok, then the online flip when the claim found no key.
AuthReply(t) ==
    /\ BagIn(t, tasks)
    /\ t.op = "auth"
    /\ reply' = Send(reply, t.w, "auth:ok", "")
    /\ tasks' = IF t.flag
                    THEN Spawn(Finish(tasks, t), PublishTask(t.w, ws[t.w].userKey, TRUE))
                    ELSE Finish(tasks, t)
    /\ UNCHANGED <<now, storeVars, srvOther, ws, clients, subscriptions, watchedBy,
                   connectionsByIp, subscribeRateLimit, watchers, channel,
                   nextHeartbeatAt, focusLog>>

\* publishTargetedPresenceUpdate resumed: nothing without watchers, else PUBLISH.
Publish(t) ==
    /\ BagIn(t, tasks)
    /\ t.op = "publish"
    /\ tasks' = Finish(tasks, t)
    /\ channel' = IF t.servers = {}
                      THEN channel
                      ELSE channel \cup {[email |-> t.u, online |-> t.flag,
                                          targetServers |-> t.servers]}
    /\ UNCHANGED <<now, storeVars, srvOther, ws, clients, subscriptions, watchedBy,
                   connectionsByIp, subscribeRateLimit, watchers, reply,
                   nextHeartbeatAt, focusLog>>

\* { type: 'presence:update', email, online }
PresenceUpdate(email, online) ==
    [type |-> "presence:update", detail |-> IF online THEN "online" ELSE "offline",
     email |-> email]

TargetedAlways(m) == TRUE

\* handlePresenceUpdate: targetServers.includes(this.serverId)
Targeted(m) == ServerId \in m.targetServers

\* handlePresenceUpdate: a published message reaches this server's subscriber.
HandlePresenceUpdate(m) ==
    LET local == IF Targeted(m) THEN watchedBy[m.email] ELSE {}
    IN  /\ m \in channel
        /\ channel' = channel \ {m}
        /\ reply' = [w \in Sockets |->
                        IF w \in local /\ ws[w].readyState = "open"
                            THEN PresenceUpdate(m.email, m.online)
                            ELSE reply[w]]
        /\ UNCHANGED <<now, storeVars, srvOther, ws, clients, subscriptions, watchedBy,
                       connectionsByIp, subscribeRateLimit, watchers, tasks,
                       nextHeartbeatAt, focusLog>>

CountNotDecremented == connectionsByIp

WatchedByUnchanged(w, keys) == watchedBy

\* watchedBy with w added to the watchers of each of keys ...
WatchedWith(w, keys) ==
    [e \in UserKeys |-> IF e \in keys THEN watchedBy[e] \cup {w} ELSE watchedBy[e]]

\* ... and with w deleted from them.
WatchedWithout(w, keys) ==
    [e \in UserKeys |-> IF e \in keys THEN watchedBy[e] \ {w} ELSE watchedBy[e]]

\* addWatcherBatch: SADD of a server to the watchers key of each of keys.
WatchersAdded(keys, serverId) ==
    [e \in UserKeys |-> IF e \in keys THEN watchers[e] \cup {serverId} ELSE watchers[e]]

StoreWatchersKept(keys) == watchers

\* removeWatcherBatch: SREM of this server from the watchers key of each of keys.
WatchersRemoved(keys) ==
    [e \in UserKeys |-> IF e \in keys THEN watchers[e] \ {ServerId} ELSE watchers[e]]

\* decrementConnectionCount
DecrementedCount == IF connectionsByIp <= 1 THEN 0 ELSE connectionsByIp - 1

\* cleanupSubscriptions: the e-mails that lose their last local watcher with w.
LastWatched(w) ==
    IF subscriptions[w].has
        THEN {e \in subscriptions[w].set : watchedBy[e] # {} /\ watchedBy[e] \ {w} = {}}
        ELSE {}

\* handleDisconnect from detachClient on: when the user has no local socket left,
\* safeClearIfOwned up to its first await (updateLastSeen).
DisconnectRest(w, wsv, tk) ==
    LET userKey == ws[w].userKey
        cl      == Detached(w)
    IN  /\ ws' = [wsv EXCEPT ![w].userKey = NoKey]
        /\ clients' = cl
        /\ IF userKey # NoKey /\ ~cl[userKey].has
              THEN /\ lastSeen' = [lastSeen EXCEPT ![userKey] = now]
                   /\ tasks' = Spawn(tk, Task("safeClear", w, userKey, FALSE, {}, {}, 0))
              ELSE /\ lastSeen' = lastSeen
                   /\ tasks' = tk

\* The close event: handleDisconnect up to its first await that reaches the store
\* (removeWatcherBatch of cleanupSubscriptions, else updateLastSeen).
HandleDisconnect(w) ==
    LET closed   == [ws EXCEPT ![w].readyState = "closed", ![w].pinged = FALSE]
        toRemove == LastWatched(w)
    IN  /\ ws[w].readyState \in {"open", "closing"}
        /\ connectionsByIp' = DecrementedCount
        /\ subscribeRateLimit' = [subscribeRateLimit EXCEPT ![w] = NoLimit]
        /\ IF subscriptions[w].has /\ subscriptions[w].set # {}
              THEN /\ watchedBy' = WatchedWithout(w, subscriptions[w].set)
                   /\ subscriptions' = [subscriptions EXCEPT ![w] = NoSubs]
              ELSE UNCHANGED <<watchedBy, subscriptions>>
        /\ IF toRemove # {}
              THEN /\ watchers' = WatchersRemoved(toRemove)
                   /\ ws' = closed
                   /\ tasks' = Spawn(tasks, Task("disconnect", w, NoKey, FALSE, {}, {}, 0))
                   /\ UNCHANGED <<clients, lastSeen>>
              ELSE /\ UNCHANGED watchers
                   /\ DisconnectRest(w, closed, tasks)
        /\ UNCHANGED <<now, presence, srvOther, channel, reply, nextHeartbeatAt, focusLog>>

\* handleDisconnect resumed after cleanupSubscriptions.
DisconnectResume(t) ==
    /\ BagIn(t, tasks)
    /\ t.op = "disconnect"
    /\ DisconnectRest(t.w, ws, Finish(tasks, t))
    /\ UNCHANGED <<now, presence, srvOther, subscriptions, watchedBy, connectionsByIp,
                   subscribeRateLimit, watchers, channel, reply, nextHeartbeatAt, focusLog>>

\* safeClearIfOwned resumed after updateLastSeen: the delete script.
SafeClearDelete(t) ==
    LET r == DeleteIfOwner(presence[t.u], ServerId)
    IN  /\ BagIn(t, tasks)
        /\ t.op = "safeClear"
        /\ presence' = [presence EXCEPT ![t.u] = r.key]
        /\ tasks' = Spawn(Finish(tasks, t), Task("cleared", t.w, t.u, r.ret = 1, {}, {}, 0))
        /\ UNCHANGED <<now, lastSeen, srvOther, ws, clients, subscriptions, watchedBy,
                       connectionsByIp, subscribeRateLimit, watchers, channel, reply,
                       nextHeartbeatAt, focusLog>>

\* handleDisconnect resumed: the offline flip when the key was deleted.
DisconnectPublish(t) ==
    /\ BagIn(t, tasks)
    /\ t.op = "cleared"
    /\ tasks' = IF t.flag
                    THEN Spawn(Finish(tasks, t), PublishTask(t.w, t.u, FALSE))
                    ELSE Finish(tasks, t)
    /\ UNCHANGED <<now, storeVars, srvOther, ws, clients, subscriptions, watchedBy,
                   connectionsByIp, subscribeRateLimit, watchers, channel, reply,
                   nextHeartbeatAt, focusLog>>

\* config.heartbeatIntervalMs || 30_000
HeartbeatIntervalMs ==
    IF config.heartbeatIntervalMs = 0 THEN DefaultHeartbeatMs ELSE config.heartbeatIntervalMs

\* startHeartbeatCheck, one firing of the interval: a socket that has not answered
\* the last ping is terminated, the others are pinged.
HeartbeatCheck ==
    /\ now >= nextHeartbeatAt
    /\ ws' = [w \in Sockets |->
                 IF ws[w].readyState # "open" THEN ws[w]
                 ELSE IF ~ws[w].isAlive
                     THEN [ws[w] EXCEPT !.readyState = "closing", !.pinged = FALSE]
                     ELSE [ws[w] EXCEPT !.isAlive = FALSE, !.pinged = TRUE]]
    /\ nextHeartbeatAt' = now + HeartbeatIntervalMs
    /\ UNCHANGED <<now, storeVars, srvOther, clients, subscriptions, watchedBy,
                   connectionsByIp, subscribeRateLimit, watchers, channel, tasks, reply,
                   focusLog>>

\* Math.max(10_000, Math.floor((config.presenceTtlSeconds * 1000) / 2))
RefreshEveryMs == Max(MinRefreshEveryMs, (config.presenceTtlSeconds * 1000) \div 2)

\* The pong handler up to its await: the socket is alive; a keyed socket whose
\* cooldown has passed runs the refresh script.
Pong(w) ==
    LET u == ws[w].userKey
        r == RefreshIfOwner(presence[u], ServerId, now, TtlMs)
    IN  /\ ws[w].readyState = "open"
        /\ ws[w].pinged
        /\ ws[w].answers
        /\ ws' = [ws EXCEPT ![w].isAlive = TRUE, ![w].pinged = FALSE]
        /\ IF u # NoKey /\ now >= ws[w].nextPresenceRefreshAt
              THEN /\ presence' = [presence EXCEPT ![u] = r.key]
                   /\ tasks' = Spawn(tasks, Task("pong", w, u, r.ret = 1, {}, {}, now))
              ELSE UNCHANGED <<presence, tasks>>
        /\ UNCHANGED <<now, lastSeen, srvOther, clients, subscriptions, watchedBy,
                       connectionsByIp, subscribeRateLimit, watchers, channel, reply,
                       nextHeartbeatAt, focusLog>>

\* The pong handler resumed: ws.nextPresenceRefreshAt = now + refreshEveryMs.
PongResume(t) ==
    /\ BagIn(t, tasks)
    /\ t.op = "pong"
    /\ ws' = [ws EXCEPT ![t.w].nextPresenceRefreshAt = t.t + RefreshEveryMs]
    /\ tasks' = Finish(tasks, t)
    /\ UNCHANGED <<now, storeVars, srvOther, clients, subscriptions, watchedBy,
                   connectionsByIp, subscribeRateLimit, watchers, channel, reply,
                   nextHeartbeatAt, focusLog>>

\* ------------------------------------------------------ focus (subscribe)

\* checkSubscribeRateLimit: the window in force, a fresh one when there is no
\* entry or the entry's resetAt has passed.
RateLimitWindow(w) ==
    IF ~subscribeRateLimit[w].has \/ subscribeRateLimit[w].resetAt < now
        THEN [has |-> TRUE, count |-> 0, resetAt |-> now + RateWindowMs]
        ELSE subscribeRateLimit[w]

\* checkSubscribeRateLimit: its result ...
checkSubscribeRateLimit(w) ==
    ~JsGe(Num(RateLimitWindow(w).count), ConfigGet("subscribeRateLimitPerMinute"))

\* ... and the entry it leaves: counted and stored only when the call passes.
RateLimitAfter(w) ==
    IF checkSubscribeRateLimit(w)
        THEN [RateLimitWindow(w) EXCEPT !.count = @ + 1]
        ELSE subscribeRateLimit[w]

\* handleSubscribe's loop without the clientSubs.has test.
RECURSIVE ToAddUnfiltered(_, _, _, _)
ToAddUnfiltered(emails, acc, slots, subs) ==
    IF emails = <<>> \/ JsGe(Num(Len(acc)), slots)
        THEN acc
        ELSE ToAddUnfiltered(Tail(emails), Append(acc, normalizeEmail(Head(emails))),
                             slots, subs)

\* handleSubscribe, the toAdd loop: stops once toAdd has availableSlots entries,
\* skips what the client already watches.
RECURSIVE ToAdd(_, _, _, _)
ToAdd(emails, acc, slots, subs) ==
    IF emails = <<>> \/ JsGe(Num(Len(acc)), slots)
        THEN acc
        ELSE LET n == normalizeEmail(Head(emails))
             IN  ToAdd(Tail(emails), IF n \in subs THEN acc ELSE Append(acc, n), slots, subs)

Range(q) == {q[i] : i \in 1..Len(q)}

\* handleSubscribe up to its first await (addWatcherBatch).  The watcher keys get
\* EXPIRE with config.watcherTtlSeconds, which the config object does not have:
\* the pipeline registers the watchers or not (added), and succeeds or is
\* rejected (done); a pipeline that succeeds has registered them.
HandleSubscribe(w, msg) ==
    LET subs  == subscriptions[w].set
        slots == JsSub(ConfigGet("maxSubscriptionsPerClient"), Num(Cardinality(subs)))
        toAdd == ToAdd(msg.emails, <<>>, slots, subs)
        log(ok) == [focusLog EXCEPT ![w] = Append(@, [t |-> now, ok |-> ok])]
    IN  /\ ws[w].readyState = "open"
        /\ Len(focusLog[w]) < MaxFocusCalls
        /\ IF ~msg.array
              THEN /\ reply' = Send(reply, w, "error", "emails must be an array")
                   /\ UNCHANGED <<subscriptions, watchedBy, subscribeRateLimit, watchers,
                                  tasks, focusLog>>
              ELSE IF ws[w].userKey = NoKey
              THEN /\ reply' = Send(reply, w, "error", "Must authenticate before subscribing")
                   /\ UNCHANGED <<subscriptions, watchedBy, subscribeRateLimit, watchers,
                                  tasks, focusLog>>
              ELSE IF ~checkSubscribeRateLimit(w)
              THEN /\ reply' = Send(reply, w, "error", "Rate limit exceeded. Try again later.")
                   /\ focusLog' = log(FALSE)
                   /\ UNCHANGED <<subscriptions, watchedBy, subscribeRateLimit, watchers, tasks>>
              ELSE /\ subscribeRateLimit' = [subscribeRateLimit EXCEPT ![w] = RateLimitAfter(w)]
                   /\ focusLog' = log(TRUE)
                   /\ IF JsLe(slots, Num(0))
                         THEN /\ reply' = Send(reply, w, "error", "Maximum subscriptions reached")
                              /\ subscriptions' = [subscriptions EXCEPT ![w].has = TRUE]
                              /\ UNCHANGED <<watchedBy, watchers, tasks>>
                         ELSE IF toAdd = <<>>
                         THEN /\ reply' = Send(reply, w, "subscribe:ok", "")
                              /\ subscriptions' = [subscriptions EXCEPT ![w].has = TRUE]
                              /\ UNCHANGED <<watchedBy, watchers, tasks>>
                         ELSE /\ subscriptions' =
                                     [subscriptions EXCEPT ![w] =
                                         [has |-> TRUE, set |-> subs \cup Range(toAdd)]]
                              /\ watchedBy' = WatchedWith(w, Range(toAdd))
                              /\ \E added, done \in BOOLEAN :
                                     /\ done => added
                                     /\ watchers' = IF added
                                                        THEN WatchersAdded(Range(toAdd), ServerId)
                                                        ELSE watchers
                                     /\ tasks' = Spawn(tasks, Task("subscribe", w, NoKey, done,
                                                                  Range(toAdd), {}, 0))
                              /\ UNCHANGED reply
        /\ UNCHANGED <<now, storeVars, srvOther, ws, clients, connectionsByIp, channel,
                       nextHeartbeatAt>>

\* handleSubscribe resumed after addWatcherBatch: the rejection surfaces as
\* 'Internal error'; else getBatchPresence (EXISTS of each added key).
SubscribeGetPresence(t) ==
    /\ BagIn(t, tasks)
    /\ t.op = "subscribe"
    /\ IF t.flag
          THEN /\ tasks' = Spawn(Finish(tasks, t),
                                Task("statuses", t.w, NoKey, TRUE,
                                     {e \in t.keys : isOnline(e)}, {}, 0))
               /\ UNCHANGED reply
          ELSE /\ tasks' = Finish(tasks, t)
               /\ reply' = Send(reply, t.w, "error", "Internal error")
    /\ UNCHANGED <<now, storeVars, srvOther, ws, clients, subscriptions, watchedBy,
                   connectionsByIp, subscribeRateLimit, watchers, channel,
                   nextHeartbeatAt, focusLog>>

\* handleSubscribe resumed after getBatchPresence: subscribe:ok with the statuses.
SubscribeReply(t) ==
    /\ BagIn(t, tasks)
    /\ t.op = "statuses"
    /\ tasks' = Finish(tasks, t)
    /\ reply' = Send(reply, t.w, "subscribe:ok", "statuses")
    /\ UNCHANGED <<now, storeVars, srvOther, ws, clients, subscriptions, watchedBy,
                   connectionsByIp, subscribeRateLimit, watchers, channel,
                   nextHeartbeatAt, focusLog>>

\* handleUnsubscribe up to its await (removeWatcherBatch), or to its end.
HandleUnsubscribe(w, msg) ==
    LET keys     == {normalizeEmail(e) : e \in Range(msg.emails)}
        toRemove == {e \in keys : watchedBy[e] # {} /\ watchedBy[e] \ {w} = {}}
    IN  /\ ws[w].readyState = "open"
        /\ IF ~msg.array
              THEN /\ reply' = Send(reply, w, "error", "emails must be an array")
                   /\ UNCHANGED <<subscriptions, watchedBy, watchers, tasks>>
              ELSE IF ~subscriptions[w].has
              THEN UNCHANGED <<reply, subscriptions, watchedBy, watchers, tasks>>
              ELSE /\ subscriptions' = [subscriptions EXCEPT ![w].set = @ \ keys]
                   /\ watchedBy' = WatchedWithout(w, keys)
                   /\ IF toRemove # {}
                         THEN /\ watchers' = WatchersRemoved(toRemove)
                              /\ tasks' = Spawn(tasks, Task("unsubscribe", w, NoKey, FALSE,
                                                           {}, {}, 0))
                              /\ UNCHANGED reply
                         ELSE /\ reply' = Send(reply, w, "unsubscribe:ok", "")
                              /\ UNCHANGED <<watchers, tasks>>
        /\ UNCHANGED <<now, storeVars, srvOther, ws, clients, connectionsByIp,
                       subscribeRateLimit, channel, nextHeartbeatAt, focusLog>>

\* handleUnsubscribe resumed after removeWatcherBatch.
UnsubscribeResume(t) ==
    /\ BagIn(t, tasks)
    /\ t.op = "unsubscribe"
    /\ tasks' = Finish(tasks, t)
    /\ reply' = Send(reply, t.w, "unsubscribe:ok", "")
    /\ UNCHANGED <<now, storeVars, srvOther, ws, clients, subscriptions, watchedBy,
                   connectionsByIp, subscribeRateLimit, watchers, channel,
                   nextHeartbeatAt, focusLog>>

\* cleanupRateLimits, a firing that finds a stale entry.
CleanupRateLimits ==
    /\ \E w \in Sockets : subscribeRateLimit[w].has /\ subscribeRateLimit[w].resetAt < now
    /\ subscribeRateLimit' =
           [w \in Sockets |->
               IF subscribeRateLimit[w].has /\ subscribeRateLimit[w].resetAt < now
                   THEN NoLimit
                   ELSE subscribeRateLimit[w]]
    /\ UNCHANGED <<now, storeVars, srvOther, ws, clients, subscriptions, watchedBy,
                   connectionsByIp, watchers, channel, tasks, reply, nextHeartbeatAt,
                   focusLog>>

\* ---------------------------------------------------- focus specification
\* One socket on one server, subscribing and unsubscribing; the clock moves in
\* steps of FocusQuantumMs and the heartbeat is left out.

FocusSockets == {"w1"}
FocusAuthEmails == {EmailA, EmailD}

\* The emails property of a subscribe / unsubscribe message.
NotAnArray == [array |-> FALSE, emails |-> <<>>]
Emails(q) == [array |-> TRUE, emails |-> q]
FocusMessages ==
    {NotAnArray, Emails(<<EmailAraw, EmailD>>), Emails(<<EmailA, EmailD, EmailE>>)}
BlurMessages == {NotAnArray, Emails(<<EmailAraw, EmailD>>)}

FocusClockTick ==
    /\ now + FocusQuantumMs <= MaxFocusClock * FocusQuantumMs
    /\ now' = now + FocusQuantumMs
    /\ presence' = [u \in UserKeys |-> Expire(presence[u], now + FocusQuantumMs)]
    /\ UNCHANGED <<lastSeen, srvOther, serverVars>>

InitFocus ==
    /\ InitStore
    /\ InitServer
    /\ config = ConfigOf(DefaultPresenceTtlSeconds, DefaultHeartbeatIntervalMs,
                         FocusMaxFocusPerClient, FocusRateLimitPerMinute,
                         DefaultMaxConnectionsPerIp)
    /\ calls = EmptyBag
    /\ flips = [u \in UserKeys |-> 0]
    /\ nextHeartbeatAt = HeartbeatIntervalMs

NextFocus ==
    \/ \E w \in FocusSockets : Connect(w, TRUE)
    \/ \E w \in FocusSockets, e \in FocusAuthEmails : CanRequest /\ HandleAuth(w, e)
    \/ \E t \in DOMAIN tasks : AuthGetLastSeen(t)
    \/ \E t \in DOMAIN tasks : AuthReply(t)
    \/ \E t \in DOMAIN tasks : Publish(t)
    \/ \E m \in channel : HandlePresenceUpdate(m)
    \/ \E w \in FocusSockets, m \in FocusMessages : CanRequest /\ HandleSubscribe(w, m)
    \/ \E t \in DOMAIN tasks : SubscribeGetPresence(t)
    \/ \E t \in DOMAIN tasks : SubscribeReply(t)
    \/ \E w \in FocusSockets, m \in BlurMessages : CanRequest /\ HandleUnsubscribe(w, m)
    \/ \E t \in DOMAIN tasks : UnsubscribeResume(t)
    \/ \E w \in FocusSockets : HandleDisconnect(w)
    \/ \E t \in DOMAIN tasks : DisconnectResume(t)
    \/ \E t \in DOMAIN tasks : SafeClearDelete(t)
    \/ \E t \in DOMAIN tasks : DisconnectPublish(t)
    \/ CleanupRateLimits
    \/ FocusClockTick

SpecFocus == InitFocus /\ [][NextFocus]_vars

\* C9: a socket's focus set never holds more than max_focus_per_client e-mails.
C9_FocusSetBounded ==
    \A w \in Sockets : Cardinality(subscriptions[w].set) <= config.maxFocusPerClient

\* The subscribe calls of w accepted in the 60 s that start at its i-th call.
AcceptedFrom(w, i) ==
    {j \in 1..Len(focusLog[w]) :
        /\ focusLog[w][j].ok
        /\ focusLog[w][i].t <= focusLog[w][j].t
        /\ focusLog[w][j].t < focusLog[w][i].t + RateWindowMs}

\* C10: in every 60-second window a socket has at most
\* focus_rate_limit_per_minute subscribe calls accepted.
C10_FocusRateLimited ==
    \A w \in Sockets : \A i \in 1..Len(focusLog[w]) :
        Cardinality(AcceptedFrom(w, i)) <= config.focusRateLimitPerMinute

\* ------------------------------------------------ heartbeat specification
\* One socket on one server; the clock moves by one heartbeat interval at a time.
\* The interval fires when it is due, an answering client's pong and the store's
\* replies arrive before the clock moves on.

HeartbeatSockets == {"w1"}
HeartbeatEmails == {EmailAraw, EmailBad}

HeartbeatClockTick ==
    /\ now < nextHeartbeatAt
    /\ tasks = EmptyBag
    /\ \A w \in Sockets :
           /\ ~(ws[w].readyState = "open" /\ ws[w].pinged /\ ws[w].answers)
           /\ ws[w].readyState # "closing"
    /\ now + HeartbeatIntervalMs <= MaxHeartbeatTicks * HeartbeatIntervalMs
    /\ now' = now + HeartbeatIntervalMs
    /\ presence' = [u \in UserKeys |-> Expire(presence[u], now + HeartbeatIntervalMs)]
    /\ UNCHANGED <<lastSeen, srvOther, serverVars>>

InitHeartbeat ==
    /\ InitStore
    /\ InitServer
    /\ config \in HeartbeatConfigs
    /\ calls = EmptyBag
    /\ flips = [u \in UserKeys |-> 0]
    /\ nextHeartbeatAt = HeartbeatIntervalMs

NextHeartbeat ==
    \/ \E w \in HeartbeatSockets, a \in BOOLEAN : Connect(w, a)
    \/ \E w \in HeartbeatSockets, e \in HeartbeatEmails : CanRequest /\ HandleAuth(w, e)
    \/ \E t \in DOMAIN tasks : AuthGetLastSeen(t)
    \/ \E t \in DOMAIN tasks : AuthReply(t)
    \/ \E t \in DOMAIN tasks : Publish(t)
    \/ \E w \in HeartbeatSockets : HandleDisconnect(w)
    \/ \E t \in DOMAIN tasks : SafeClearDelete(t)
    \/ \E t \in DOMAIN tasks : DisconnectPublish(t)
    \/ HeartbeatCheck
    \/ \E w \in HeartbeatSockets : Pong(w)
    \/ \E t \in DOMAIN tasks : PongResume(t)
    \/ HeartbeatClockTick

SpecHeartbeat == InitHeartbeat /\ [][NextHeartbeat]_vars

\* C8: while a socket is open, keyed and answering every ping, its user is
\* online.
C8_LiveSessionStaysOnline ==
    \A w \in Sockets :
        (ws[w].readyState = "open" /\ ws[w].answers /\ ws[w].userKey # NoKey) =>
            isOnline(ws[w].userKey)

\* ------------------------------------------------ registry properties

\* The event pair "first x by server a, then y by server b, on one key".
Pair(x, y) == prevEv.op = x /\ ev.op = y /\ prevEv.u = ev.u

\* C1: a refresh or a release that the store runs for server S while the key is
\* absent or holds another value reports not-refreshed / not-deleted and leaves
\* the key's value and expiry as they were; only the stored owner's call
\* succeeds.
C1_OwnerGuard ==
    ev.op \in {"refresh", "safeClear"} =>
        /\ ev.bval # ev.s => (~ev.ok /\ ev.same)
        /\ ev.ok => ev.bval = ev.s

C1_Witness ==
    /\ ev.op = "safeClear"
    /\ ev.s = "S1"
    /\ ev.bval = "S2"
    /\ ~ev.ok
    /\ presence[ev.u].val = "S2"
    /\ calls = EmptyBag

\* C2: an online user's key holds exactly one server id, and that server claimed
\* or successfully refreshed the key no longer than the TTL ago.
C2_OnlineHasFreshOwner ==
    \A u \in UserKeys :
        isOnline(u) =>
            /\ Cardinality({s \in Servers : presence[u].val = s}) = 1
            /\ lastTouch[u][presence[u].val] # NoTime
            /\ now - lastTouch[u][presence[u].val] <= TtlMs
            /\ presence[u].exp = lastTouch[u][presence[u].val] + TtlMs

C2_Witness ==
    /\ isOnline(EmailA)
    /\ presence[EmailA].val = "S2"
    /\ lastTouch[EmailA]["S2"] = now - TtlMs
    /\ lastTouch[EmailA]["S1"] # NoTime
    /\ prevEv.op = "refresh"
    /\ prevEv.s = "S2"
    /\ prevEv.ok
    /\ ev.op = "refresh"
    /\ ev.s = "S1"
    /\ ev.t = now
    /\ ~ev.ok

\* C4: when S' claims a key that S claimed less than a TTL before, the claim
\* reports became_online = false and the key holds S' with a full TTL; from then
\* on, for as long as S' is the most recent claimer, a refresh by S reports
\* not-refreshed and leaves value and expiry as they were.
C4_CrossServerReconnect ==
    /\ (Pair("setOnline", "setOnline") /\ prevEv.s # ev.s /\ ev.within) =>
            /\ ~ev.ok
            /\ isOnline(ev.u) => presence[ev.u].val = ev.s
            /\ ev.t = now => presence[ev.u] = [val |-> ev.s, exp |-> now + TtlMs]
    /\ (ev.op = "refresh" /\ claimedBy[ev.u] \notin {Null, ev.s}) =>
            (~ev.ok /\ ev.same)

C4_Witness ==
    /\ Pair("setOnline", "refresh")
    /\ prevEv.s = "S2"
    /\ prevEv.bval = "S1"
    /\ ~prevEv.ok
    /\ ev.s = "S1"
    /\ ~ev.ok
    /\ presence[ev.u].val = "S2"

\* C5: a release by S that follows S's claim with no other command on the key
\* and no expiry in between reports deleted, and the user is offline after it.
C5_ClaimThenRelease ==
    (Pair("setOnline", "safeClear") /\ prevEv.s = ev.s /\ ev.within) =>
        (ev.ok /\ ~isOnline(ev.u))

C5_Witness ==
    /\ Pair("setOnline", "safeClear")
    /\ prevEv.s = ev.s
    /\ ev.within
    /\ ev.t > 0
    /\ ev.ok
    /\ ~isOnline(ev.u)

\* C6, as stated: the second of two consecutive releases by S reports false and
\* leaves the key absent.
C6_SecondReleaseLeavesAbsent ==
    (Pair("safeClear", "safeClear") /\ prevEv.s = ev.s) =>
        (~ev.ok /\ presence[ev.u].val = Null)

\* C6: the second of two consecutive releases by S reports false and leaves the
\* key as it was: absent when the first release deleted it or found it absent,
\* still held by its owner when the key belongs to another server.
C6_SecondReleaseFalse ==
    (Pair("safeClear", "safeClear") /\ prevEv.s = ev.s) =>
        /\ ~ev.ok
        /\ ev.same
        /\ (prevEv.ok \/ prevEv.bval = Null) => presence[ev.u].val = Null

C6_Witness ==
    /\ Pair("safeClear", "safeClear")
    /\ prevEv.s = ev.s
    /\ prevEv.ok
    /\ ~ev.ok
    /\ presence[ev.u].val = Null

\* C7: a refresh by S that follows S's claim with no other command on the key,
\* no later than the TTL after it, reports refreshed; the user is online and the
\* key's lifetime is the full TTL again.
C7_ClaimThenRefresh ==
    (Pair("setOnline", "refresh") /\ prevEv.s = ev.s /\ ev.within) =>
        /\ ev.ok
        /\ ev.t = now =>
               /\ isOnline(ev.u)
               /\ presence[ev.u] = [val |-> ev.s, exp |-> now + TtlMs]

C7_Witness ==
    /\ Pair("setOnline", "refresh")
    /\ prevEv.s = ev.s
    /\ ev.within
    /\ ev.ok
    /\ ev.t = now
    /\ now = TtlMs
    /\ presence[ev.u].exp = now + TtlMs

\* ------------------------------------------- connection specification
\* Three connections from one address with MAX_CONNECTIONS_PER_IP = 2; they
\* authenticate and close.  The clock stands still.

ConnEmails == {EmailAraw}

InitConnections ==
    /\ InitStore
    /\ InitServer
    /\ config = ConfigOf(DefaultPresenceTtlSeconds, DefaultHeartbeatIntervalMs,
                         DefaultMaxFocusPerClient, DefaultFocusRateLimitPerMinute,
                         ConnMaxConnectionsPerIp)
    /\ calls = EmptyBag
    /\ flips = [u \in UserKeys |-> 0]
    /\ nextHeartbeatAt = HeartbeatIntervalMs

NextConnections ==
    \/ \E w \in Sockets : Connect(w, TRUE)
    \/ \E w \in Sockets, e \in ConnEmails : CanRequest /\ HandleAuth(w, e)
    \/ \E t \in DOMAIN tasks : AuthGetLastSeen(t)
    \/ \E t \in DOMAIN tasks : AuthReply(t)
    \/ \E t \in DOMAIN tasks : Publish(t)
    \/ \E w \in Sockets : HandleDisconnect(w)
    \/ \E t \in DOMAIN tasks : SafeClearDelete(t)
    \/ \E t \in DOMAIN tasks : DisconnectPublish(t)

SpecConnections == InitConnections /\ [][NextConnections]_vars

\* The accepted connections whose close event has not been handled yet.
AcceptedOpen == {w \in Sockets : ws[w].readyState \in {"open", "closing"}}

\* The connections closed at arrival because the address was at its limit.
Rejected == {w \in Sockets : reply[w] = PolicyClose}

C11_Counted ==
    /\ connectionsByIp = Cardinality(AcceptedOpen)
    /\ connectionsByIp <= config.maxConnectionsPerIp
    /\ \A w \in Rejected : ws[w].readyState = "closed"

C11_RejectStep ==
    \A w \in Sockets :
        /\ (ws[w].readyState = "none" /\ ws'[w].readyState = "closed") =>
               /\ connectionsByIp = config.maxConnectionsPerIp
               /\ connectionsByIp' = connectionsByIp
               /\ reply'[w] = PolicyClose
        /\ (ws[w].readyState = "none" /\ ws'[w].readyState = "open") =>
               connectionsByIp' = connectionsByIp + 1
        /\ w \in Rejected => (ws'[w] = ws[w] /\ reply'[w] = reply[w])

\* C11: the connection count of the address equals the accepted connections not
\* yet closed and never exceeds max_connections_per_ip; a connection arriving at
\* the limit is closed with code 1008, changes no counter, and no later step
\* (no close handling) acts on it.
C11_ConnectionCount == [](C11_Counted) /\ [][C11_RejectStep]_vars

\* A third connection was rejected at count 2, and one accepted connection has
\* closed since.
C11_Witness ==
    /\ Rejected # {}
    /\ connectionsByIp = 1
    /\ \E w \in Sockets \ Rejected : ws[w].readyState = "closed"

\* ---------------------------------------------- session specification
\* Two connections that authenticate, re-authenticate as another user and
\* close; up to MaxSessionTasks handlers are suspended together.  The clock
\* stands still.

SessionSockets == {"w1", "w2"}
SessionEmails == {EmailAraw, EmailD}

NextSessions ==
    \/ \E w \in SessionSockets : Connect(w, TRUE)
    \/ \E w \in SessionSockets, e \in SessionEmails : CanRequestMore /\ HandleAuth(w, e)
    \/ \E t \in DOMAIN tasks : AuthGetLastSeen(t)
    \/ \E t \in DOMAIN tasks : AuthReply(t)
    \/ \E t \in DOMAIN tasks : Publish(t)
    \/ \E w \in SessionSockets : HandleDisconnect(w)
    \/ \E t \in DOMAIN tasks : SafeClearDelete(t)
    \/ \E t \in DOMAIN tasks : DisconnectPublish(t)

SpecSessions == InitFocus /\ [][NextSessions]_vars

\* The disconnect handling of w has run past its detachClient.
DisconnectRan(w) ==
    /\ ws[w].readyState = "closed"
    /\ \A t \in DOMAIN tasks : ~(t.op = "disconnect" /\ t.w = w)

\* C13: an open socket keyed U is in the clients map under U and under no other
\* key, an unkeyed or disconnected socket under none, and the map holds no
\* empty set.
C13_ClientsMapConsistent ==
    /\ \A w \in Sockets : \A k \in UserKeys :
           w \in clients[k].set <=>
               (ws[w].userKey = k /\ ~DisconnectRan(w) /\ ws[w].readyState # "none")
    /\ \A w \in Sockets : DisconnectRan(w) => ws[w].userKey = NoKey
    /\ \A k \in UserKeys : clients[k].has <=> clients[k].set # {}

\* Two auth handlers of one open socket are suspended together, for different
\* users, and another socket's disconnect handling has run.
C13_Witness ==
    /\ \E w \in Sockets :
           /\ ws[w].readyState = "open"
           /\ \E t1, t2 \in DOMAIN tasks :
                  /\ t1.w = w /\ t2.w = w
                  /\ t1.op \in {"setOnline", "auth"} /\ t2.op \in {"setOnline", "auth"}
                  /\ t1.u # t2.u
    /\ \E w \in Sockets \ Rejected : ws[w].readyState = "closed"

\* ------------------------------------------- focus index specification
\* Two sockets of one server that authenticate, subscribe, unsubscribe and
\* close, one request at a time.  The clock stands still.

IndexSockets == {"w1", "w2"}
IndexAuthEmails == {EmailE}
IndexMessages == {Emails(<<EmailAraw, EmailD>>), Emails(<<EmailD>>)}

NextIndex ==
    \/ \E w \in IndexSockets : Connect(w, TRUE)
    \/ \E w \in IndexSockets, e \in IndexAuthEmails : CanRequest /\ HandleAuth(w, e)
    \/ \E t \in DOMAIN tasks : AuthGetLastSeen(t)
    \/ \E t \in DOMAIN tasks : AuthReply(t)
    \/ \E t \in DOMAIN tasks : Publish(t)
    \/ \E w \in IndexSockets, m \in IndexMessages : CanRequest /\ HandleSubscribe(w, m)
    \/ \E t \in DOMAIN tasks : SubscribeGetPresence(t)
    \/ \E t \in DOMAIN tasks : SubscribeReply(t)
    \/ \E w \in IndexSockets, m \in IndexMessages : CanRequest /\ HandleUnsubscribe(w, m)
    \/ \E t \in DOMAIN tasks : UnsubscribeResume(t)
    \/ \E w \in IndexSockets : HandleDisconnect(w)
    \/ \E t \in DOMAIN tasks : DisconnectResume(t)
    \/ \E t \in DOMAIN tasks : SafeClearDelete(t)
    \/ \E t \in DOMAIN tasks : DisconnectPublish(t)

SpecIndex == InitFocus /\ [][NextIndex]_vars

\* The two directions of the focus index hold the same (socket, e-mail) pairs,
\* and none of a socket whose close event has been handled.
FocusIndexAgrees ==
    /\ \A w \in Sockets : \A e \in UserKeys :
           e \in subscriptions[w].set <=> w \in watchedBy[e]
    /\ \A w \in Sockets :
           ws[w].readyState = "closed" => subscriptions[w].set = {}

Live == {w \in Sockets : ws[w].readyState \in {"open", "closing"}}

SlowStoreClockTick ==
    /\ now < nextHeartbeatAt
    /\ \A w \in Sockets :
           /\ ~(ws[w].readyState = "open" /\ ws[w].pinged /\ ws[w].answers)
           /\ ws[w].readyState # "closing"
    /\ now + HeartbeatIntervalMs <= MaxHeartbeatTicks * HeartbeatIntervalMs
    /\ now' = now + HeartbeatIntervalMs
    /\ presence' = [u \in UserKeys |-> Expire(presence[u], now + HeartbeatIntervalMs)]
    /\ UNCHANGED <<lastSeen, srvOther, serverVars>>

NextSlowStore ==
    \/ \E w \in HeartbeatSockets, a \in BOOLEAN : Connect(w, a)
    \/ \E w \in HeartbeatSockets, e \in HeartbeatEmails : CanRequest /\ HandleAuth(w, e)
    \/ \E t \in DOMAIN tasks : AuthGetLastSeen(t)
    \/ \E t \in DOMAIN tasks : AuthReply(t)
    \/ \E t \in DOMAIN tasks : Publish(t)
    \/ \E w \in HeartbeatSockets : HandleDisconnect(w)
    \/ \E t \in DOMAIN tasks : SafeClearDelete(t)
    \/ \E t \in DOMAIN tasks : DisconnectPublish(t)
    \/ HeartbeatCheck
    \/ \E w \in HeartbeatSockets : Pong(w)
    \/ \E t \in DOMAIN tasks : PongResume(t)
    \/ SlowStoreClockTick

InitSlowStore ==
    /\ InitStore
    /\ InitServer
    /\ config \in {c \in HeartbeatConfigs : c.presenceTtlSeconds * 1000 >= MinRefreshEveryMs
                                              /\ c.heartbeatIntervalMs < MinRefreshEveryMs \div 2}
    /\ calls = EmptyBag
    /\ flips = [u \in UserKeys |-> 0]
    /\ nextHeartbeatAt = HeartbeatIntervalMs

SpecSlowStore == InitSlowStore /\ [][NextSlowStore]_vars

\* The refresh calls of socket w that still await the store's reply.
RefreshesAwaited(w) == {t \in DOMAIN tasks : t.op = "pong" /\ t.w = w}

\* C15: two refresh calls issued for one socket are at least the refresh
\* cooldown, max(10 s, presence_ttl / 2), apart.
C15_RefreshesCooldownApart ==
    \A w \in Sockets : \A t1, t2 \in RefreshesAwaited(w) :
        t1 # t2 => (t1.t - t2.t >= RefreshEveryMs \/ t2.t - t1.t >= RefreshEveryMs)

\* C16: a socket whose focus set is empty has no refresh call issued for it.
C16_FocusGate ==
    \A w \in Sockets : RefreshesAwaited(w) # {} => subscriptions[w].set # {}

\* ------------------------------------------- delivery specification
\* Socket w1 authenticates as one user and watches another, who authenticates
\* on socket w2 of the same server.

DeliverySockets == {"w1", "w2"}
Watcher == "w1"
DeliveryLogins == {<<"w1", EmailE>>, <<"w2", EmailD>>}
DeliveryEmails == {EmailD}
DeliveryMessages == {Emails(<<EmailD>>)}
RemoteServerId == "S2"

\* Another server's addWatcherBatch and removeWatcherBatch, as the store sees them.
RemoteWatch(keys, on) ==
    /\ watchers' = IF on
                       THEN WatchersAdded(keys, RemoteServerId)
                       ELSE [e \in UserKeys |->
                                IF e \in keys THEN watchers[e] \ {RemoteServerId}
                                              ELSE watchers[e]]
    /\ watchers' # watchers
    /\ UNCHANGED <<now, storeVars, srvOther, ws, clients, subscriptions, watchedBy,
                   connectionsByIp, subscribeRateLimit, channel, tasks, reply,
                   nextHeartbeatAt, focusLog>>

\* Another server's publishTargetedPresenceUpdate up to its await.
RemoteFlip(u, online) ==
    /\ tasks' = Spawn(tasks, PublishTask(RemoteServerId, u, online))
    /\ UNCHANGED <<now, storeVars, srvOther, ws, clients, subscriptions, watchedBy,
                   connectionsByIp, subscribeRateLimit, watchers, channel, reply,
                   nextHeartbeatAt, focusLog>>

\* The steps that resume a suspended handler.
ResumeAuth == \E t \in DOMAIN tasks : AuthGetLastSeen(t) \/ AuthReply(t)
ResumeSubscribe == \E t \in DOMAIN tasks : SubscribeGetPresence(t) \/ SubscribeReply(t)
ResumeUnsubscribe == \E t \in DOMAIN tasks : UnsubscribeResume(t)
ResumeDisconnect ==
    \E t \in DOMAIN tasks : DisconnectResume(t) \/ SafeClearDelete(t) \/ DisconnectPublish(t)
ResumePublish == \E t \in DOMAIN tasks : Publish(t)
Deliver == \E m \in channel : HandlePresenceUpdate(m)

NextDelivery ==
    \/ \E w \in DeliverySockets : Connect(w, TRUE)
    \/ \E l \in DeliveryLogins : CanRequest /\ HandleAuth(l[1], l[2])
    \/ \E m \in DeliveryMessages : CanRequest /\ HandleSubscribe(Watcher, m)
    \/ \E w \in DeliverySockets : HandleDisconnect(w)
    \/ ResumeAuth
    \/ ResumeSubscribe
    \/ ResumeDisconnect
    \/ ResumePublish
    \/ Deliver

SpecDelivery == InitFocus /\ [][NextDelivery]_vars

\* Every suspended handler is resumed and every published message delivered.
DeliveryFairness ==
    /\ WF_vars(ResumeAuth)
    /\ WF_vars(ResumeSubscribe)
    /\ WF_vars(ResumeDisconnect)
    /\ WF_vars(ResumePublish)
    /\ WF_vars(Deliver)

SpecDeliveryFair == SpecDelivery /\ DeliveryFairness

\* Socket w is open and has u in its focus set.
Focused(w, u) == ws[w].readyState = "open" /\ u \in subscriptions[w].set

\* The last local socket of u has closed and the delete script has removed u's
\* presence key, which this server owned.
Released(u) == \E t \in DOMAIN tasks : t.op = "cleared" /\ t.u = u /\ t.flag

\* C17: when the last socket of u closes on the server that owns u's presence
\* key, a socket that has u in its focus set is eventually sent
\* presence:update { email: u, online: false }, unless it closes or drops u first.
C17_OfflineFlipDelivered ==
    \A w \in Sockets : \A u \in UserKeys :
        (Released(u) /\ Focused(w, u)) ~>
            (reply[w] = PresenceUpdate(u, FALSE) \/ ~Focused(w, u))

\* The offline flip of C17 is pending while a socket watches the user.
C17_Pending == \E w \in Sockets : \E u \in UserKeys : Released(u) /\ Focused(w, u)

\* ------------------------------------------- targeted routing specification
\* As the delivery specification, with a second server that registers as a
\* watcher and publishes flips of its own, and a watcher that drops its focus.

TargetLogins == {EmailE}

NextTargets ==
    \/ Connect(Watcher, TRUE)
    \/ \E e \in TargetLogins : CanRequest /\ HandleAuth(Watcher, e)
    \/ \E m \in DeliveryMessages : CanRequest /\ HandleSubscribe(Watcher, m)
    \/ \E m \in DeliveryMessages : CanRequest /\ HandleUnsubscribe(Watcher, m)
    \/ HandleDisconnect(Watcher)
    \/ \E on \in BOOLEAN : RemoteWatch({normalizeEmail(e) : e \in DeliveryEmails}, on)
    \/ \E e \in DeliveryEmails, on \in BOOLEAN : CanRequest /\ RemoteFlip(normalizeEmail(e), on)
    \/ ResumeAuth
    \/ ResumeSubscribe
    \/ ResumeUnsubscribe
    \/ ResumeDisconnect
    \/ ResumePublish
    \/ Deliver

SpecTargets == InitFocus /\ [][NextTargets]_vars

\* Message m is what socket w has just been sent.
Carries(m, w) ==
    /\ reply'[w] = PresenceUpdate(m.email, m.online)
    /\ ServerId \in m.targetServers

\* A step that sends socket w a presence:update delivers a published message
\* that lists this server as a target, for a user in w's focus set, to an open
\* socket.
SentOnlyToFocused(w) ==
    (reply'[w] # reply[w] /\ reply'[w].type = "presence:update")
        => /\ \E m \in channel : Carries(m, w)
           /\ reply'[w].email \in subscriptions[w].set
           /\ ws[w].readyState = "open"

\* C18: a presence:update for u goes to a socket only if the socket is open and
\* has u in its focus set when the message is delivered, and only on a server
\* that the message lists as a target.
C18_FocusedDeliveryOnly == [][\A w \in Sockets : SentOnlyToFocused(w)]_vars

\* The watcher holds an update for a user in its focus set, every message is
\* delivered or dropped, and only the other server is registered as watching.
C18_Witness ==
    /\ reply[Watcher].type = "presence:update"
    /\ Focused(Watcher, reply[Watcher].email)
    /\ channel = {}
    /\ RemoteServerId \in watchers[reply[Watcher].email]
    /\ ServerId \notin watchers[reply[Watcher].email]

\* ------------------------------------------- single-server backend
\* The backend of src/backend: one server, the presence key holds '1', the
\* clients map holds one socket per e-mail, and a sweeper polls the keys of the
\* registered users.

BasicSockets == {"w1", "w2"}
BasicEmails == {EmailD, EmailE}

\* Sweeps whose store calls are outstanding together.
MaxSweeps == 1

\* Clock steps explored by the single-server specification.
MaxBasicClock == 2

\* What the single-server backend never touches.
shardedVars == <<config, lastSeen, calls, histVars, flips, ws, clients, subscriptions,
                 watchedBy, connectionsByIp, subscribeRateLimit, watchers, channel, reply,
                 nextHeartbeatAt, focusLog>>

BasicTask(op, w, u, flag, users) == Task(op, w, u, flag, users, {}, 0)

\* The sockets the clients map holds that are open.
OpenClients ==
    {w \in Sockets : wss[w].readyState = "open"
                     /\ \E u \in UserKeys : clientsByEmail[u] = w}

BroadcastToNobody(email, online, by) ==
    [email |-> email, online |-> online, by |-> by, to |-> {}, flip |-> ~broadcast.flip]

\* broadcastPresenceUpdate: the message goes to every open socket of the
\* clients map.
BroadcastPresenceUpdate(email, online, by) ==
    [email |-> email, online |-> online, by |-> by, to |-> OpenClients,
     flip |-> ~broadcast.flip]

\* SET presence:{email} '1' EX ttl
SetEx(t, ttlMs) == [val |-> "1", exp |-> t + ttlMs]

\* EXPIRE presence:{email} ttl: moves the expiry of an existing key.
ExpireIn(p, t, ttlMs) == IF p.val # Null THEN [val |-> p.val, exp |-> t + ttlMs] ELSE p

\* DEL presence:{email}
Del(p) == Absent

\* POST /login: registerUser adds the e-mail to users:all.
Login(email) ==
    /\ isValidEmail(normalizeEmail(email))
    /\ normalizeEmail(email) \notin usersAll
    /\ usersAll' = usersAll \cup {normalizeEmail(email)}
    /\ UNCHANGED <<now, presence, tasks, shardedVars, wss, clientsByEmail,
                   lastKnownStatus, broadcast>>

\* handleConnection of the single-server backend.
BasicConnect(w) ==
    /\ wss[w].readyState # "open"
    /\ wss' = [wss EXCEPT ![w] = [NoBasicSocket EXCEPT !.readyState = "open"]]
    /\ UNCHANGED <<now, presence, tasks, shardedVars, clientsByEmail, usersAll,
                   lastKnownStatus, broadcast>>

\* handleAuth up to its await: ws.email, clients.set, setOnline (SET ... EX).
BasicHandleAuth(w, email) ==
    LET normalized == normalizeEmail(email)
    IN  /\ wss[w].readyState = "open"
        /\ isValidEmail(normalized)
        /\ wss' = [wss EXCEPT ![w] = [@ EXCEPT !.email = normalized, !.lastHeard = now,
                                                !.late = FALSE]]
        /\ clientsByEmail' = [clientsByEmail EXCEPT ![normalized] = w]
        /\ presence' = [presence EXCEPT ![normalized] = SetEx(now, TtlMs)]
        /\ tasks' = Spawn(tasks, BasicTask("auth", w, normalized, TRUE, {}))
        /\ UNCHANGED <<now, shardedVars, usersAll, lastKnownStatus, broadcast>>

\* handleAuth resumed: auth:ok, then the online broadcast.
BasicAuthOk(t) ==
    /\ BagIn(t, tasks)
    /\ t.op = "auth"
    /\ tasks' = Finish(tasks, t)
    /\ broadcast' = BroadcastPresenceUpdate(t.u, TRUE, "auth")
    /\ UNCHANGED <<now, presence, shardedVars, wss, clientsByEmail, usersAll,
                   lastKnownStatus>>

\* handlePing up to its await: refreshPresence (EXPIRE) for an authenticated socket.
BasicHandlePing(w) ==
    /\ wss[w].readyState = "open"
    /\ wss[w].email # NoKey
    /\ presence' = [presence EXCEPT ![wss[w].email] = ExpireIn(@, now, TtlMs)]
    /\ wss' = [wss EXCEPT ![w].lastHeard = now]
    /\ UNCHANGED <<now, tasks, shardedVars, clientsByEmail, usersAll, lastKnownStatus,
                   broadcast>>

\* The close handler up to its await: clients.delete(ws.email), setOffline (DEL).
BasicOnClose(w) ==
    /\ wss[w].readyState = "open"
    /\ wss' = [wss EXCEPT ![w].readyState = "closed"]
    /\ IF wss[w].email # NoKey
          THEN /\ clientsByEmail' = [clientsByEmail EXCEPT ![wss[w].email] = Null]
               /\ presence' = [presence EXCEPT ![wss[w].email] = Del(@)]
               /\ tasks' = Spawn(tasks, BasicTask("close", w, wss[w].email, FALSE, {}))
          ELSE UNCHANGED <<clientsByEmail, presence, tasks>>
    /\ UNCHANGED <<now, shardedVars, usersAll, lastKnownStatus, broadcast>>

\* The close handler resumed: the offline broadcast.
BasicCloseBroadcast(t) ==
    /\ BagIn(t, tasks)
    /\ t.op = "close"
    /\ tasks' = Finish(tasks, t)
    /\ broadcast' = BroadcastPresenceUpdate(t.u, FALSE, "close")
    /\ UNCHANGED <<now, presence, shardedVars, wss, clientsByEmail, usersAll,
                   lastKnownStatus>>

\* The sweeps whose store calls are outstanding.
Sweeps == [t \in {d \in DOMAIN tasks : d.op \in {"users", "check"}} |-> tasks[t]]

\* The sweeper's timer fires: checkPresenceChanges up to getAllUsers (SMEMBERS).
SweepStart ==
    /\ BagCardinality(Sweeps) < MaxSweeps
    /\ tasks' = Spawn(tasks, BasicTask("users", Null, NoKey, FALSE, usersAll))
    /\ UNCHANGED <<now, presence, shardedVars, basicVars>>

\* The loop of checkPresenceChanges reaches its next isOnline (EXISTS), or its end.
SweepOn(tk, users) ==
    IF users = {}
        THEN {tk}
        ELSE {Spawn(tk, BasicTask("check", Null, e, isOnline(e), users \ {e})) : e \in users}

\* checkPresenceChanges resumed with the users.
SweepUsers(t) ==
    /\ BagIn(t, tasks)
    /\ t.op = "users"
    /\ tasks' \in SweepOn(Finish(tasks, t), t.keys)
    /\ UNCHANGED <<now, presence, shardedVars, basicVars>>

StatusOf(currentOnline) == IF currentOnline THEN Yes ELSE No

\* checkPresenceChanges resumed with currentOnline of one user: the offline
\* broadcast on a transition, the new last known status, the next user.
SweepCheck(t) ==
    /\ BagIn(t, tasks)
    /\ t.op = "check"
    /\ broadcast' = IF lastKnownStatus[t.u] = Yes /\ ~t.flag
                        THEN BroadcastPresenceUpdate(t.u, FALSE, "sweeper")
                        ELSE broadcast
    /\ lastKnownStatus' = [lastKnownStatus EXCEPT ![t.u] = StatusOf(t.flag)]
    /\ tasks' \in SweepOn(Finish(tasks, t), t.keys)
    /\ UNCHANGED <<now, presence, shardedVars, wss, clientsByEmail, usersAll>>

\* Time passes: keys expire, and a socket whose last message is older than the
\* TTL has missed its time.
BasicClockTick ==
    /\ now + QuantumMs <= MaxBasicClock * QuantumMs
    /\ now' = now + QuantumMs
    /\ presence' = [u \in UserKeys |-> Expire(presence[u], now + QuantumMs)]
    /\ wss' = [w \in Sockets |->
                  IF wss[w].readyState = "open" /\ wss[w].email # NoKey
                     /\ now + QuantumMs > wss[w].lastHeard + TtlMs
                      THEN [wss[w] EXCEPT !.late = TRUE]
                      ELSE wss[w]]
    /\ UNCHANGED <<tasks, shardedVars, clientsByEmail, usersAll, lastKnownStatus, broadcast>>

InitBasic ==
    /\ InitStore
    /\ InitServer
    /\ config = ConfigOf(RegistryTtlSeconds, DefaultHeartbeatIntervalMs,
                         DefaultMaxFocusPerClient, DefaultFocusRateLimitPerMinute,
                         DefaultMaxConnectionsPerIp)
    /\ calls = EmptyBag
    /\ flips = [u \in UserKeys |-> 0]
    /\ nextHeartbeatAt = 0

NextBasic ==
    \/ \E w \in BasicSockets : BasicConnect(w)
    \/ \E w \in BasicSockets, e \in BasicEmails : CanRequest /\ BasicHandleAuth(w, e)
    \/ \E t \in DOMAIN tasks : BasicAuthOk(t)
    \/ \E w \in BasicSockets : BasicHandlePing(w)
    \/ \E w \in BasicSockets : CanRequest /\ BasicOnClose(w)
    \/ \E t \in DOMAIN tasks : BasicCloseBroadcast(t)
    \/ BasicClockTick

SpecBasic == InitBasic /\ [][NextBasic]_vars

\* The e-mails the sockets authenticate with in the runs with the sweeper.
SweeperEmails == {EmailD}

\* The same backend with its registration route and its sweeper.
NextSweeper ==
    \/ \E e \in BasicEmails : Login(e)
    \/ \E w \in BasicSockets : BasicConnect(w)
    \/ \E w \in BasicSockets, e \in SweeperEmails : CanRequest /\ BasicHandleAuth(w, e)
    \/ \E t \in DOMAIN tasks : BasicAuthOk(t)
    \/ \E w \in BasicSockets : BasicHandlePing(w)
    \/ \E w \in BasicSockets : CanRequest /\ BasicOnClose(w)
    \/ \E t \in DOMAIN tasks : BasicCloseBroadcast(t)
    \/ SweepStart
    \/ \E t \in DOMAIN tasks : SweepUsers(t)
    \/ \E t \in DOMAIN tasks : SweepCheck(t)
    \/ BasicClockTick

SpecSweeper == InitBasic /\ [][NextSweeper]_vars

\* Socket w is open and authenticated, and each of its messages so far came
\* within the TTL of the one before.
KeepsPinging(w) ==
    /\ wss[w].readyState = "open"
    /\ wss[w].email # NoKey
    /\ ~wss[w].late

\* C19: a user with an open authenticated connection whose pings keep arriving
\* within the TTL is online (the key presence:{email} exists), also when another
\* connection with the same e-mail closes meanwhile.
C19_OnlineWhilePinging ==
    \A w \in Sockets : KeepsPinging(w) => isOnline(wss[w].email)

\* The open sockets that have authenticated.
Connected == {w \in Sockets : wss[w].readyState = "open" /\ wss[w].email # NoKey}

\* The sweeper sees user e offline after having seen e online.
ObservedOffline(e) == lastKnownStatus[e] = Yes /\ lastKnownStatus'[e] = No

\* The step broadcasts on behalf of the sweeper, about user e.
SweeperBroadcasts(e) ==
    broadcast' # broadcast /\ broadcast'.by = "sweeper" /\ broadcast'.email = e

\* The sweeper broadcasts e offline to the sockets of to on exactly the steps
\* in which it observes e going from online to offline.
OfflineOncePerTransition(e, to) ==
    IF ObservedOffline(e)
        THEN SweeperBroadcasts(e) /\ ~broadcast'.online /\ broadcast'.to = to
        ELSE ~SweeperBroadcasts(e)

LocalSession(u) == \E w \in Sockets : ws[w].readyState = "open" /\ ws[w].userKey = u

\* The step deletes the presence key of u (the key does not expire in it).
KeyDeleted(u) == presence[u].val # Null /\ presence'[u].val = Null /\ now' = now

\* The step calls publishTargetedPresenceUpdate(u, false).
OfflineFlipCalled(u) ==
    \E t \in DOMAIN tasks' :
        /\ t.op = "publish" /\ t.u = u /\ ~t.flag
        /\ tasks'[t] > (IF t \in DOMAIN tasks THEN tasks[t] ELSE 0)

\* C21: this server neither deletes the presence key of u nor publishes an
\* offline flip for u while an open local socket is authenticated as u.
C21_NoReleaseWhileLocal ==
    [][\A u \in UserKeys : (KeyDeleted(u) \/ OfflineFlipCalled(u)) => ~LocalSession(u)]_vars

\* ------------------------------------------- release specification
\* Two sockets of one user on this server, and a second server that claims the
\* user's presence key and registers as a watcher.

ReleaseSockets == {"w1", "w2"}
ReleaseEmails == {EmailD}

\* Another server's setOnline, as the store sees it: SET ... EX ttl GET.
RemoteClaim(u) ==
    /\ presence[u].val # RemoteServerId
    /\ presence' = [presence EXCEPT ![u] = SetExGet(@, RemoteServerId, now, TtlMs).key]
    /\ UNCHANGED <<now, lastSeen, srvOther, serverVars>>

NextRelease ==
    \/ \E w \in ReleaseSockets : Connect(w, TRUE)
    \/ \E w \in ReleaseSockets, e \in ReleaseEmails : CanRequest /\ HandleAuth(w, e)
    \/ \E t \in DOMAIN tasks : AuthGetLastSeen(t)
    \/ \E t \in DOMAIN tasks : AuthReply(t)
    \/ \E t \in DOMAIN tasks : Publish(t)
    \/ \E w \in ReleaseSockets : HandleDisconnect(w)
    \/ \E t \in DOMAIN tasks : SafeClearDelete(t)
    \/ \E t \in DOMAIN tasks : DisconnectPublish(t)
    \/ \E e \in ReleaseEmails : RemoteClaim(normalizeEmail(e))
    \/ \E on \in BOOLEAN : RemoteWatch({normalizeEmail(e) : e \in ReleaseEmails}, on)
    \/ FocusClockTick

SpecRelease == InitFocus /\ [][NextRelease]_vars

\* The tasks of kind op for user u with result flag that the step adds.
Added(op, u, flag) ==
    {t \in DOMAIN tasks' : /\ t.op = op /\ t.u = u /\ t.flag = flag
                           /\ tasks'[t] > (IF t \in DOMAIN tasks THEN tasks[t] ELSE 0)}

\* The tasks of kind op for user u with result flag that the step resumes.
Resumed(op, u, flag) ==
    {t \in DOMAIN tasks : /\ t.op = op /\ t.u = u /\ t.flag = flag
                          /\ tasks[t] > (IF t \in DOMAIN tasks' THEN tasks'[t] ELSE 0)}

\* The step is a claim of u's presence key, by this or by the other server.
Claimed(u) ==
    \/ Added("setOnline", u, TRUE) \cup Added("setOnline", u, FALSE) # {}
    \/ presence'[u].val = RemoteServerId /\ presence[u].val # RemoteServerId

\* Disconnect handling publishes the offline flip of u exactly when its
\* safeClearIfOwned returned true.
FlipIffReleased(u) == OfflineFlipCalled(u) <=> Resumed("cleared", u, TRUE) # {}

\* safeClearIfOwned returns true exactly when it deletes a key this server
\* holds; otherwise it leaves value and expiry of the key as they are.
ReleaseIffOwned(u) ==
    /\ Added("cleared", u, TRUE) # {} => presence[u].val = ServerId /\ KeyDeleted(u)
    /\ Added("cleared", u, FALSE) # {} => presence[u].val # ServerId /\ presence'[u] = presence[u]

\* A key that is absent comes back by a claim only.
BackByClaimOnly(u) == (presence[u].val = Null /\ presence'[u].val # Null) => Claimed(u)

C23_OnlineFlipForClaimedKey ==
    [][\A u \in UserKeys :
          Added("publish", u, TRUE) # {} <=> Resumed("auth", u, TRUE) # {}]_vars


\* ------------------------------------------------ the heartbeat loops of a process

\* The calls of startHeartbeatCheck in one process: the constructor's and the
\* bootstrap's, which follows the constructor in the same synchronous run.
HeartbeatLoops == <<"constructor", "bootstrap">>

\* One run of the interval callback of startHeartbeatCheck over wss.clients.
HeartbeatPass(s) ==
    [w \in Sockets |->
        IF s[w].readyState # "open" THEN s[w]
        ELSE IF ~s[w].isAlive
            THEN [s[w] EXCEPT !.readyState = "closing", !.pinged = FALSE]
            ELSE [s[w] EXCEPT !.isAlive = FALSE, !.pinged = TRUE]]

\* The interval of loop i fires; nextHeartbeatAt holds one due time per loop.
\* Intervals of one period that are due together fire in the order they were set.
BootstrapHeartbeatCheck(i) ==
    /\ now >= nextHeartbeatAt[i]
    /\ \A j \in DOMAIN HeartbeatLoops : j < i => now < nextHeartbeatAt[j]
    /\ ws' = HeartbeatPass(ws)
    /\ nextHeartbeatAt' = [nextHeartbeatAt EXCEPT ![i] = now + HeartbeatIntervalMs]
    /\ UNCHANGED <<now, storeVars, srvOther, clients, subscriptions, watchedBy,
                   connectionsByIp, subscribeRateLimit, watchers, channel, tasks, reply,
                   focusLog>>

\* A heartbeat period passes once every loop has fired and every answering
\* client has answered its ping.
BootstrapClockTick ==
    /\ \A i \in DOMAIN HeartbeatLoops : now < nextHeartbeatAt[i]
    /\ tasks = EmptyBag
    /\ \A w \in Sockets :
           /\ ~(ws[w].readyState = "open" /\ ws[w].pinged /\ ws[w].answers)
           /\ ws[w].readyState # "closing"
    /\ now + HeartbeatIntervalMs <= MaxHeartbeatTicks * HeartbeatIntervalMs
    /\ now' = now + HeartbeatIntervalMs
    /\ presence' = [u \in UserKeys |-> Expire(presence[u], now + HeartbeatIntervalMs)]
    /\ UNCHANGED <<lastSeen, srvOther, serverVars>>

InitBootstrap ==
    /\ InitStore
    /\ InitServer
    /\ config \in HeartbeatConfigs
    /\ calls = EmptyBag
    /\ flips = [u \in UserKeys |-> 0]
    /\ nextHeartbeatAt = [i \in DOMAIN HeartbeatLoops |-> HeartbeatIntervalMs]

NextBootstrap ==
    \/ \E w \in HeartbeatSockets, a \in BOOLEAN : Connect(w, a)
    \/ \E w \in HeartbeatSockets, e \in HeartbeatEmails : CanRequest /\ HandleAuth(w, e)
    \/ \E t \in DOMAIN tasks : AuthGetLastSeen(t)
    \/ \E t \in DOMAIN tasks : AuthReply(t)
    \/ \E t \in DOMAIN tasks : Publish(t)
    \/ \E w \in HeartbeatSockets : HandleDisconnect(w)
    \/ \E t \in DOMAIN tasks : SafeClearDelete(t)
    \/ \E t \in DOMAIN tasks : DisconnectPublish(t)
    \/ \E i \in DOMAIN HeartbeatLoops : BootstrapHeartbeatCheck(i)
    \/ \E w \in HeartbeatSockets : Pong(w)
    \/ \E t \in DOMAIN tasks : PongResume(t)
    \/ BootstrapClockTick

SpecBootstrap == InitBootstrap /\ [][NextBootstrap]_vars

\* A heartbeat interval fires in this step.
HeartbeatTick == nextHeartbeatAt' # nextHeartbeatAt

\* C24: a heartbeat tick terminates an open session if and only if it has
\* observed no pong since the previous tick, and a session whose client answers
\* every ping within the heartbeat period is never terminated.
C24_TerminatedIffNoPong ==
    [][\A w \in Sockets :
          /\ (HeartbeatTick /\ ws[w].readyState = "open") =>
                 (ws'[w].readyState = "closing" <=> ~ws[w].isAlive)
          /\ ws'[w].readyState = "closing" => ~ws'[w].answers]_vars


\* ------------------------------------------------ the messages of one session
\* One socket on one server under the constructor's heartbeat loop; the client
\* sends messages of every type, before and after it has authenticated.

GateMessages == {NotAnArray, Emails(<<EmailD>>)}
GateTypes == {"ping", "invalid", "other"}
MaxGateTicks == 2

\* A heartbeat period passes, as in the heartbeat specification.
GateClockTick ==
    /\ now < MaxGateTicks * HeartbeatIntervalMs
    /\ HeartbeatClockTick

\* handleClientPing of the earlier variant: an unauthenticated socket gets an
\* error, an authenticated one refreshes the key when the cooldown has passed
\* and gets pong.
HandleClientPing(w, type) ==
    LET u == ws[w].userKey
        r == RefreshIfOwner(presence[u], ServerId, now, TtlMs)
    IN  /\ ws[w].readyState = "open"
        /\ reply' = CASE type = "ping" ->
                            Send(reply, w, IF u = NoKey THEN "error" ELSE "pong",
                                 IF u = NoKey THEN "Not authenticated" ELSE "")
                      [] type = "invalid" -> Send(reply, w, "error", "Invalid JSON")
                      [] OTHER -> Send(reply, w, "error", "Unknown message type")
        /\ IF type = "ping" /\ u # NoKey /\ now >= ws[w].nextPresenceRefreshAt
              THEN /\ presence' = [presence EXCEPT ![u] = r.key]
                   /\ ws' = [ws EXCEPT ![w].nextPresenceRefreshAt = now + RefreshEveryMs]
              ELSE UNCHANGED <<presence, ws>>
        /\ UNCHANGED <<now, lastSeen, srvOther, clients, subscriptions, watchedBy,
                       connectionsByIp, subscribeRateLimit, watchers, channel, tasks,
                       nextHeartbeatAt, focusLog>>

\* handleMessage: a client ping gets a pong; an unknown type or unparsable text
\* an error.
HandleOtherMessage(w, type) ==
    /\ ws[w].readyState = "open"
    /\ reply' = CASE type = "ping" -> Send(reply, w, "pong", "")
                  [] type = "invalid" -> Send(reply, w, "error", "Invalid JSON")
                  [] OTHER -> Send(reply, w, "error", "Unknown message type")
    /\ UNCHANGED <<now, storeVars, srvOther, ws, clients, subscriptions, watchedBy,
                   connectionsByIp, subscribeRateLimit, watchers, channel, tasks,
                   nextHeartbeatAt, focusLog>>

NextGate ==
    \/ \E w \in HeartbeatSockets : Connect(w, TRUE)
    \/ \E w \in HeartbeatSockets, e \in HeartbeatEmails : CanRequest /\ HandleAuth(w, e)
    \/ \E t \in DOMAIN tasks : AuthGetLastSeen(t)
    \/ \E t \in DOMAIN tasks : AuthReply(t)
    \/ \E t \in DOMAIN tasks : Publish(t)
    \/ \E w \in HeartbeatSockets, m \in GateMessages : CanRequest /\ HandleSubscribe(w, m)
    \/ \E t \in DOMAIN tasks : SubscribeGetPresence(t)
    \/ \E t \in DOMAIN tasks : SubscribeReply(t)
    \/ \E w \in HeartbeatSockets, m \in GateMessages : CanRequest /\ HandleUnsubscribe(w, m)
    \/ \E t \in DOMAIN tasks : UnsubscribeResume(t)
    \/ \E w \in HeartbeatSockets, type \in GateTypes : HandleOtherMessage(w, type)
    \/ \E w \in HeartbeatSockets : HandleDisconnect(w)
    \/ \E t \in DOMAIN tasks : DisconnectResume(t)
    \/ \E t \in DOMAIN tasks : SafeClearDelete(t)
    \/ \E t \in DOMAIN tasks : DisconnectPublish(t)
    \/ HeartbeatCheck
    \/ \E w \in HeartbeatSockets : Pong(w)
    \/ \E t \in DOMAIN tasks : PongResume(t)
    \/ GateClockTick

SpecGate == InitFocus /\ [][NextGate]_vars

\* The step sends a pong reply to w.
PongReplied(w) == reply'[w] # reply[w] /\ reply'[w].type = "pong"

\* The step extends the expiry of u's key without changing its value.
Refreshed(u) ==
    /\ presence[u].val # Null
    /\ presence'[u].val = presence[u].val
    /\ presence'[u].exp > presence[u].exp

C26_FocusFailureLeavesNoState ==
    [][\A t \in Resumed("subscribe", NoKey, FALSE) :
          ws[t.w].readyState = "open" =>
              /\ reply'[t.w].type = "error"
              /\ subscriptions'[t.w].set \cap t.keys = {}
              /\ \A e \in t.keys : t.w \notin watchedBy'[e]]_vars


\* ------------------------------------------------ auth during a store outage

\* handleAuth up to its await when the store is down: the socket is keyed and
\* entered in clients, and the SET of setOnline is rejected.
HandleAuthOutage(w, email) ==
    LET u == normalizeEmail(email)
    IN  /\ ws[w].readyState = "open"
        /\ email # <<>>
        /\ isValidEmail(u)
        /\ ws' = [ws EXCEPT ![w].userKey = u]
        /\ clients' = [Detached(w) EXCEPT ![u] = [has |-> TRUE, set |-> @.set \cup {w}]]
        /\ tasks' = Spawn(tasks, Task("setOnlineRejected", w, u, FALSE, {}, {}, 0))
        /\ UNCHANGED <<now, storeVars, srvOther, subscriptions, watchedBy, connectionsByIp,
                       subscribeRateLimit, watchers, channel, reply, nextHeartbeatAt,
                       focusLog>>

\* The rejection reaches the catch of the message handler: 'Internal error'.
AuthInternalError(t) ==
    /\ BagIn(t, tasks)
    /\ t.op = "setOnlineRejected"
    /\ tasks' = Finish(tasks, t)
    /\ reply' = Send(reply, t.w, "error", "Internal error")
    /\ UNCHANGED <<now, storeVars, srvOther, ws, clients, subscriptions, watchedBy,
                   connectionsByIp, subscribeRateLimit, watchers, channel,
                   nextHeartbeatAt, focusLog>>

NextOutage ==
    \/ \E w \in SessionSockets : Connect(w, TRUE)
    \/ \E w \in SessionSockets, e \in SessionEmails : CanRequest /\ HandleAuth(w, e)
    \/ \E w \in SessionSockets, e \in SessionEmails : CanRequest /\ HandleAuthOutage(w, e)
    \/ \E t \in DOMAIN tasks : AuthInternalError(t)
    \/ \E t \in DOMAIN tasks : AuthGetLastSeen(t)
    \/ \E t \in DOMAIN tasks : AuthReply(t)
    \/ \E t \in DOMAIN tasks : Publish(t)
    \/ \E w \in SessionSockets : HandleDisconnect(w)
    \/ \E t \in DOMAIN tasks : SafeClearDelete(t)
    \/ \E t \in DOMAIN tasks : DisconnectPublish(t)
    \/ FocusClockTick

SpecOutage == InitFocus /\ [][NextOutage]_vars

\* C27: once the failure of the claim of an auth has been handled, the socket is
\* closed, has no user key and is in no set of the clients map.
C27_FailedAuthClosesSession ==
    [][\A u \in UserKeys : \A t \in Resumed("setOnlineRejected", u, FALSE) :
          ws[t.w].readyState = "open" =>
              /\ ws'[t.w].readyState # "open"
              /\ ws'[t.w].userKey = NoKey
              /\ \A k \in UserKeys : t.w \notin clients'[k].set]_vars


\* ------------------------------------------------ refresh after the key is ceded
\* The heartbeat specification with a second server that may claim the user's
\* key; the heartbeat interval is long enough for the refresh cooldown to end
\* within a few ticks, and the session authenticates once.

InitCeded ==
    /\ InitStore
    /\ InitServer
    /\ config \in {c \in HeartbeatConfigs : 2 * c.heartbeatIntervalMs >= MinRefreshEveryMs}
    /\ calls = EmptyBag
    /\ flips = [u \in UserKeys |-> 0]
    /\ nextHeartbeatAt = HeartbeatIntervalMs

NextCeded ==
    \/ \E w \in HeartbeatSockets : Connect(w, TRUE)
    \/ \E w \in HeartbeatSockets, e \in HeartbeatEmails :
           CanRequest /\ ws[w].userKey = NoKey /\ HandleAuth(w, e)
    \/ \E t \in DOMAIN tasks : AuthGetLastSeen(t)
    \/ \E t \in DOMAIN tasks : AuthReply(t)
    \/ \E t \in DOMAIN tasks : Publish(t)
    \/ \E w \in HeartbeatSockets : HandleDisconnect(w)
    \/ \E t \in DOMAIN tasks : SafeClearDelete(t)
    \/ \E t \in DOMAIN tasks : DisconnectPublish(t)
    \/ HeartbeatCheck
    \/ \E w \in HeartbeatSockets : Pong(w)
    \/ \E t \in DOMAIN tasks : PongResume(t)
    \/ \E u \in {normalizeEmail(e) : e \in HeartbeatEmails} \cap UserKeys : RemoteClaim(u)
    \/ HeartbeatClockTick

SpecCeded == InitCeded /\ [][NextCeded]_vars

\* The event loop runs every due interval and every ready callback, an answering
\* client answers each ping, and time passes.
CededFairness ==
    /\ WF_vars(HeartbeatCheck)
    /\ WF_vars(\E w \in HeartbeatSockets : Pong(w))
    /\ WF_vars(\E t \in DOMAIN tasks : PongResume(t))
    /\ WF_vars(HeartbeatClockTick)

SpecCededFair == SpecCeded /\ CededFairness

\* The instants of the heartbeat specification.
HeartbeatTimes == {i * h : i \in 0..MaxHeartbeatTicks, h \in HeartbeatChoices}

\* A refresh call that w issued at time at has found the key expired or owned
\* by another server.
NotRefreshed(w, at) ==
    \E t \in DOMAIN tasks : t.op = "pong" /\ t.w = w /\ ~t.flag /\ t.t = at

\* w has issued a refresh call after time at.
RefreshedAfter(w, at) ==
    \E t \in DOMAIN tasks : t.op = "pong" /\ t.w = w /\ t.t > at

\* C28: once a refresh call of a session has returned not-refreshed, the session
\* issues no further refresh call.
C28_NoRefreshAfterMismatch ==
    \A w \in HeartbeatSockets : \A at \in HeartbeatTimes :
        [](NotRefreshed(w, at) => []~RefreshedAfter(w, at))


\* The session of w is open and has not authenticated.
Connecting(w) == ws[w].readyState = "open" /\ ws[w].userKey = NoKey

\* C29: a reply to a session that is and stays Connecting is an error reply of a
\* step that changes neither the store nor the local maps, and a Connecting
\* session gets its key only by an auth that claims a valid key.
C29_ConnectingAcceptsOnlyAuth ==
    [][\A w \in Sockets :
          Connecting(w) =>
              /\ (ws'[w].userKey = NoKey /\ reply'[w] # reply[w]) =>
                     /\ reply'[w].type = "error"
                     /\ UNCHANGED <<storeVars, ws, clients, subscriptions, watchedBy,
                                    watchers, tasks>>
              /\ ws'[w].userKey # NoKey =>
                     /\ isValidEmail(ws'[w].userKey)
                     /\ Added("setOnline", ws'[w].userKey, TRUE)
                            \cup Added("setOnline", ws'[w].userKey, FALSE) # {}]_vars


\* The keys a subscribe message asks for.
RequestKeys(msg) == {normalizeEmail(e) : e \in Range(msg.emails)}

\* C30: a focus request whose keys are all in the session's focus set already
\* leaves the focus index in both directions and the store's watcher sets as
\* they are, starts no store call and is answered with subscribe:ok.
C30_FocusIdempotent ==
    [][\A w \in FocusSockets : \A msg \in FocusMessages :
          (/\ msg.array
           /\ RequestKeys(msg) \subseteq subscriptions[w].set
           /\ HandleSubscribe(w, msg)) =>
              /\ reply'[w].type = "subscribe:ok"
              /\ UNCHANGED <<subscriptions, watchedBy, watchers, tasks>>]_vars

\* A session with a focus set has had a repeated request answered with
\* subscribe:ok and no statuses.
C30_Witness ==
    \E w \in Sockets :
        /\ reply[w].type = "subscribe:ok"
        /\ reply[w].detail = ""
        /\ subscriptions[w].set # {}
        /\ Len(focusLog[w]) >= 2


\* ------------------------------------------------ focus requests with duplicates
\* One socket whose subscribe messages name a key more than once, in different
\* spellings.

DuplicateMessages ==
    {Emails(<<EmailAraw, EmailA>>), Emails(<<EmailAraw, EmailA, EmailD>>),
     Emails(<<EmailD, EmailE>>)}

\* getBatchPresence: one { email, online } entry per element of the list.
getBatchPresence(emails) ==
    [i \in 1..Len(emails) |->
        [email |-> normalizeEmail(emails[i]), online |-> isOnline(normalizeEmail(emails[i]))]]

NextDuplicates ==
    \/ \E w \in HeartbeatSockets : Connect(w, TRUE)
    \/ \E w \in HeartbeatSockets, e \in FocusAuthEmails : CanRequest /\ HandleAuth(w, e)
    \/ \E t \in DOMAIN tasks : AuthGetLastSeen(t)
    \/ \E t \in DOMAIN tasks : AuthReply(t)
    \/ \E t \in DOMAIN tasks : Publish(t)
    \/ \E w \in HeartbeatSockets, msg \in DuplicateMessages :
           CanRequest /\ HandleSubscribe(w, msg)
    \/ \E t \in DOMAIN tasks : SubscribeGetPresence(t)
    \/ \E t \in DOMAIN tasks : SubscribeReply(t)
    \/ \E w \in HeartbeatSockets, msg \in DuplicateMessages :
           CanRequest /\ HandleUnsubscribe(w, msg)
    \/ \E t \in DOMAIN tasks : UnsubscribeResume(t)
    \/ \E w \in HeartbeatSockets : HandleDisconnect(w)
    \/ \E t \in DOMAIN tasks : DisconnectResume(t)
    \/ \E t \in DOMAIN tasks : SafeClearDelete(t)
    \/ \E t \in DOMAIN tasks : DisconnectPublish(t)
    \/ FocusClockTick

SpecDuplicates == InitFocus /\ [][NextDuplicates]_vars

\* The distinct keys of a request that the session does not watch yet.
NewKeys(w, msg) == RequestKeys(msg) \ subscriptions[w].set

\* C31: a focus request that registers keys adds min(distinct new keys of the
\* request, max_focus_per_client - focus size) keys to the focus set, and its
\* snapshot has one entry for each key it added.
C31_DuplicatesDeduplicated ==
    [][\A w \in Sockets : \A msg \in DuplicateMessages :
          (HandleSubscribe(w, msg) /\ subscriptions'[w].set # subscriptions[w].set) =>
              LET subs  == subscriptions[w].set
                  added == subscriptions'[w].set \ subs
                  slots == JsSub(ConfigGet("maxSubscriptionsPerClient"), Num(Cardinality(subs)))
                  toAdd == ToAdd(msg.emails, <<>>, slots, subs)
                  room  == config.maxFocusPerClient - Cardinality(subs)
              IN  /\ Cardinality(added) =
                         IF Cardinality(NewKeys(w, msg)) <= room
                             THEN Cardinality(NewKeys(w, msg))
                             ELSE room
                  /\ Len(getBatchPresence(toAdd)) = Cardinality(added)]_vars


\* Socket w has u in its focus set and the blur request msg names u.
Blurred(w, msg, u) == u \in RequestKeys(msg) /\ u \in subscriptions[w].set

\* ... and no other socket has u in its focus set.
LastBlurred(w, msg, u) ==
    /\ Blurred(w, msg, u)
    /\ \A w2 \in Sockets \ {w} : u \notin subscriptions[w2].set

\* C32: a blur takes this server out of the watcher set of exactly the keys that
\* the blurring socket was the last local socket to focus; every other watcher
\* set is left as it is, and a key the socket had not focused keeps its entries
\* in both directions of the focus index.
C32_BlurRemovesLastWatcher ==
    [][\A w \in IndexSockets : \A msg \in IndexMessages :
          (HandleUnsubscribe(w, msg) /\ subscriptions[w].has) =>
              /\ \A u \in UserKeys :
                     /\ LastBlurred(w, msg, u) => watchers'[u] = watchers[u] \ {ServerId}
                     /\ ~LastBlurred(w, msg, u) => watchers'[u] = watchers[u]
                     /\ ~Blurred(w, msg, u) =>
                            /\ watchedBy'[u] = watchedBy[u]
                            /\ u \in subscriptions'[w].set <=> u \in subscriptions[w].set
                     /\ Blurred(w, msg, u) =>
                            /\ watchedBy'[u] = watchedBy[u] \ {w}
                            /\ u \notin subscriptions'[w].set
              /\ \A w2 \in Sockets \ {w} : subscriptions'[w2] = subscriptions[w2]]_vars

\* One socket has blurred a key that another local socket still has in focus,
\* and this server is still in the key's watcher set.
C32_Witness ==
    \E w, w2 \in Sockets : \E u \in UserKeys :
        /\ w # w2
        /\ reply[w].type = "unsubscribe:ok"
        /\ subscriptions[w].has
        /\ u \notin subscriptions[w].set
        /\ u \in subscriptions[w2].set
        /\ ServerId \in watchers[u]


\* A socket whose disconnect handling has run is in no set of the clients map,
\* in no pair of the focus index and not in the rate-limit map, and the
\* connection count is that of the sockets whose close has not been handled.
SessionGone ==
    /\ \A w \in Sockets :
           DisconnectRan(w) =>
               /\ ws[w].userKey = NoKey
               /\ \A k \in UserKeys : w \notin clients[k].set
               /\ subscriptions[w].set = {}
               /\ \A e \in UserKeys : w \notin watchedBy[e]
               /\ ~subscribeRateLimit[w].has
    /\ connectionsByIp = Cardinality(AcceptedOpen)

\* The step that handles the close of a socket takes this server out of the
\* watcher sets of the keys only that socket watched, and of no other.
CloseRemovesLastWatched ==
    \A w \in Sockets :
        (ws[w].readyState \in {"open", "closing"} /\ ws'[w].readyState = "closed") =>
            /\ connectionsByIp' = connectionsByIp - 1
            /\ \A e \in UserKeys :
                   watchers'[e] = IF watchedBy[e] = {w}
                                      THEN watchers[e] \ {ServerId}
                                      ELSE watchers[e]

SnapshotEpoch == 200000000

\* Ages on both sides of every threshold of bucketize.
BucketAges ==
    {0, 9999, 10000, 59999, 60000, 299999, 300000, 899999, 900000,
     3599999, 3600000, 86399999, 86400000}

\* bucketize(nowMs, lastActiveAtMs, online)
bucketize(nowMs, lastActiveAtMs, online) ==
    LET d == nowMs - lastActiveAtMs
    IN  IF online THEN "online_now"
        ELSE IF lastActiveAtMs = NoTime \/ lastActiveAtMs = 0 THEN "unknown"
        ELSE IF d < 10000 THEN "active_10s"
        ELSE IF d < 60000 THEN "active_1m"
        ELSE IF d < 5 * 60000 THEN "active_5m"
        ELSE IF d < 15 * 60000 THEN "active_15m"
        ELSE IF d < 60 * 60000 THEN "active_1h"
        ELSE IF d < 24 * 60 * 60000 THEN "active_today"
        ELSE "inactive"

\* The values GET of the last-active key can return.
LastActiveChoices == {NoTime} \cup {now - a : a \in BucketAges}

\* getBatchPresenceForList for one e-mail, answered to w: online is whether the
\* presence key holds a value.
getBatchPresenceForList(w, email, lastActiveAt) ==
    LET u == normalizeEmail(email)
    IN  /\ isValidEmail(u)
        /\ reply' = [reply EXCEPT ![w] = [type |-> "snapshot",
                                          detail |-> bucketize(now, lastActiveAt,
                                                               presence[u].val # Null),
                                          email |-> u]]
        /\ UNCHANGED <<now, storeVars, srvOther, ws, clients, subscriptions, watchedBy,
                       connectionsByIp, subscribeRateLimit, watchers, channel, tasks,
                       nextHeartbeatAt, focusLog>>

InitSnapshot ==
    /\ InitServer
    /\ now = SnapshotEpoch
    /\ presence = [u \in UserKeys |-> Absent]
    /\ lastSeen = [u \in UserKeys |-> NoTime]
    /\ ev = NoEvent
    /\ prevEv = NoPrevEvent
    /\ lastTouch = [u \in UserKeys |-> [s \in Servers |-> NoTime]]
    /\ claimedBy = [u \in UserKeys |-> Null]
    /\ config = ConfigOf(DefaultPresenceTtlSeconds, DefaultHeartbeatIntervalMs,
                         DefaultMaxFocusPerClient, DefaultFocusRateLimitPerMinute,
                         DefaultMaxConnectionsPerIp)
    /\ calls = EmptyBag
    /\ flips = [u \in UserKeys |-> 0]
    /\ nextHeartbeatAt = now + HeartbeatIntervalMs

\* Time passes; presence keys past their expiry are gone.
SnapshotClockTick ==
    /\ now + FocusQuantumMs <= SnapshotEpoch + MaxFocusClock * FocusQuantumMs
    /\ now' = now + FocusQuantumMs
    /\ presence' = [u \in UserKeys |-> Expire(presence[u], now + FocusQuantumMs)]
    /\ UNCHANGED <<lastSeen, srvOther, serverVars>>

NextSnapshot ==
    \/ \E e \in FocusAuthEmails, la \in LastActiveChoices :
           getBatchPresenceForList(Watcher, e, la)
    \/ \E u \in UserKeys : RemoteClaim(u)
    \/ SnapshotClockTick

SpecSnapshot == InitSnapshot /\ [][NextSnapshot]_vars


\* The labels of a snapshot bucket.
Buckets ==
    {"online_now", "active_10s", "active_1m", "active_5m", "active_15m", "active_1h",
     "active_today", "inactive"}

\* The bucket of a user last active at lastActiveAtMs (NoTime: never).
BucketOf(nowMs, lastActiveAtMs, online) ==
    LET d == nowMs - lastActiveAtMs
    IN  IF online THEN "online_now"
        ELSE IF lastActiveAtMs = NoTime THEN "inactive"
        ELSE IF d < 10 * 1000 THEN "active_10s"
        ELSE IF d < 60 * 1000 THEN "active_1m"
        ELSE IF d < 5 * 60 * 1000 THEN "active_5m"
        ELSE IF d < 15 * 60 * 1000 THEN "active_15m"
        ELSE IF d < 60 * 60 * 1000 THEN "active_1h"
        ELSE IF d < 24 * 60 * 60 * 1000 THEN "active_today"
        ELSE "inactive"

\* C34: the bucket of a snapshot entry is online_now for an online user and
\* else the label of now - last_active_ms, inactive when no timestamp is
\* stored; it is always one of the eight labels.
C34_BucketOfAge ==
    [][\A e \in FocusAuthEmails : \A la \in LastActiveChoices :
          getBatchPresenceForList(Watcher, e, la) =>
              /\ reply'[Watcher].detail =
                     BucketOf(now, la, presence[normalizeEmail(e)].val # Null)
              /\ reply'[Watcher].detail \in Buckets]_vars


\* ------------------------------------------- malformed payloads
\* Anything can be published on the presence channel.  The payloads that are
\* not flips: text JSON.parse rejects, the JSON value null, a JSON scalar, an
\* object without fields, and an object that has an email but neither online
\* nor targetServers.

MalformedKinds == {"syntax", "null", "scalar", "empty", "emailOnly"}
MalformedPayloads == [kind : MalformedKinds, email : DeliveryEmails]

\* JSON.stringify({ type: 'presence:update', email, online: undefined })
PresenceUpdateUndefined(email) ==
    [type |-> "presence:update", detail |-> "undefined", email |-> email]

\* The subscriber callback on a payload p that is not a flip.  JSON.parse throws
\* on "syntax" and the destructuring in handlePresenceUpdate throws on "null";
\* the callback catches both.  A scalar and an empty object have no email, and
\* watchedBy.get(undefined) is undefined.  With an email and no targetServers
\* the target check is skipped and the update goes to the local watchers.
OnMessage(p) ==
    LET local == IF p.kind = "emailOnly" THEN watchedBy[p.email] ELSE {}
    IN  /\ reply' = [w \in Sockets |->
                        IF w \in local /\ ws[w].readyState = "open"
                            THEN PresenceUpdateUndefined(p.email)
                            ELSE reply[w]]
        /\ UNCHANGED <<now, storeVars, srvOther, ws, clients, subscriptions, watchedBy,
                       connectionsByIp, subscribeRateLimit, watchers, channel, tasks,
                       nextHeartbeatAt, focusLog>>

NextMalformed ==
    \/ NextDelivery
    \/ \E p \in MalformedPayloads : OnMessage(p)

SpecMalformed == InitFocus /\ [][NextMalformed]_vars

\* C35: the subscriber callback on a payload that is not a flip sends no
\* message to any socket and leaves the sockets, their focus sets and the
\* watchedBy index as they were.
C35_MalformedDropped ==
    [][\A p \in MalformedPayloads :
          OnMessage(p) => UNCHANGED <<reply, ws, clients, subscriptions, watchedBy>>]_vars


\* ------------------------------------------- shutdown
\* The signal handler of bootstrap: await presenceService.disconnect(), then
\* server.close(callback), whose callback exits the process once the last
\* connection has ended.  Its progress is kept in calls: the disconnect call
\* whose QUIT has closed both store connections, then the pending close of the
\* HTTP server, then the exit.  The handler neither clears the heartbeat
\* interval nor closes a socket.  The signal arrives while no handler is
\* suspended; the sockets of the run have no focus set.

ShutdownCall(op) == SetToBag({InFlight(op, NoKey, ServerId)})

StoreClosed == calls # EmptyBag
Accepting == calls \in {EmptyBag, ShutdownCall("disconnect")}
Exited == calls = ShutdownCall("exit")

\* shutdown up to its await: presenceService.disconnect() sends QUIT on both
\* connections.
ShutdownQuit ==
    /\ calls = EmptyBag
    /\ tasks = EmptyBag
    /\ calls' = ShutdownCall("disconnect")
    /\ UNCHANGED <<now, config, storeVars, histVars, flips, serverVars>>

\* shutdown resumed: server.close stops the listener.
ShutdownClose ==
    /\ calls = ShutdownCall("disconnect")
    /\ calls' = ShutdownCall("close")
    /\ UNCHANGED <<now, config, storeVars, histVars, flips, serverVars>>

\* The callback of server.close: process.exit(0) when no connection is left.
ShutdownExit ==
    /\ calls = ShutdownCall("close")
    /\ \A w \in Sockets : ws[w].readyState \notin {"open", "closing"}
    /\ calls' = ShutdownCall("exit")
    /\ UNCHANGED <<now, config, storeVars, histVars, flips, serverVars>>

\* The pong handler after QUIT: refreshPresence is rejected.
PongStoreClosed(w) ==
    LET u == ws[w].userKey
    IN  /\ StoreClosed
        /\ ws[w].readyState = "open"
        /\ ws[w].pinged
        /\ ws[w].answers
        /\ ws' = [ws EXCEPT ![w].isAlive = TRUE, ![w].pinged = FALSE]
        /\ tasks' = IF u # NoKey /\ now >= ws[w].nextPresenceRefreshAt
                        THEN Spawn(tasks, Task("refreshRejected", w, u, FALSE, {}, {}, now))
                        ELSE tasks
        /\ UNCHANGED <<now, storeVars, srvOther, clients, subscriptions, watchedBy,
                       connectionsByIp, subscribeRateLimit, watchers, channel, reply,
                       nextHeartbeatAt, focusLog>>

\* The close event after QUIT, of a socket without focus set: the local state
\* is cleaned up and safeClearIfOwned is rejected at its first command.
DisconnectStoreClosed(w) ==
    LET userKey == ws[w].userKey
        cl      == Detached(w)
    IN  /\ StoreClosed
        /\ ws[w].readyState \in {"open", "closing"}
        /\ ~subscriptions[w].has \/ subscriptions[w].set = {}
        /\ connectionsByIp' = DecrementedCount
        /\ subscribeRateLimit' = [subscribeRateLimit EXCEPT ![w] = NoLimit]
        /\ ws' = [ws EXCEPT ![w].readyState = "closed", ![w].pinged = FALSE,
                            ![w].userKey = NoKey]
        /\ clients' = cl
        /\ tasks' = IF userKey # NoKey /\ ~cl[userKey].has
                        THEN Spawn(tasks, Task("safeClearRejected", w, userKey, FALSE,
                                               {}, {}, now))
                        ELSE tasks
        /\ UNCHANGED <<now, storeVars, srvOther, subscriptions, watchedBy, watchers,
                       channel, reply, nextHeartbeatAt, focusLog>>

\* The catch around the rejected call: console.error.
StoreRejected(t) ==
    /\ BagIn(t, tasks)
    /\ t.op \in {"refreshRejected", "safeClearRejected"}
    /\ tasks' = Finish(tasks, t)
    /\ UNCHANGED <<now, storeVars, srvOther, ws, clients, subscriptions, watchedBy,
                   connectionsByIp, subscribeRateLimit, watchers, channel, reply,
                   nextHeartbeatAt, focusLog>>

NextShutdown ==
    \/ \E w \in HeartbeatSockets, a \in BOOLEAN : Accepting /\ Connect(w, a)
    \/ \E w \in HeartbeatSockets, e \in HeartbeatEmails :
           ~StoreClosed /\ CanRequest /\ HandleAuth(w, e)
    \/ \E t \in DOMAIN tasks : AuthGetLastSeen(t)
    \/ \E t \in DOMAIN tasks : AuthReply(t)
    \/ \E t \in DOMAIN tasks : Publish(t)
    \/ \E w \in HeartbeatSockets : ~StoreClosed /\ HandleDisconnect(w)
    \/ \E t \in DOMAIN tasks : SafeClearDelete(t)
    \/ \E t \in DOMAIN tasks : DisconnectPublish(t)
    \/ ~Exited /\ HeartbeatCheck
    \/ \E w \in HeartbeatSockets : ~StoreClosed /\ Pong(w)
    \/ \E t \in DOMAIN tasks : PongResume(t)
    \/ ~Exited /\ HeartbeatClockTick
    \/ ShutdownQuit
    \/ ShutdownClose
    \/ ShutdownExit
    \/ \E w \in HeartbeatSockets : PongStoreClosed(w)
    \/ \E w \in HeartbeatSockets : DisconnectStoreClosed(w)
    \/ \E t \in DOMAIN tasks : StoreRejected(t)

SpecShutdown == InitHeartbeat /\ [][NextShutdown]_vars

\* clearInterval of the heartbeat: the interval has no next firing.
HeartbeatStopped == nextHeartbeatAt = NoTime

\* C36: the store connections are closed last: when they are closed the
\* listener has stopped accepting, the heartbeat interval is cleared and no
\* socket is open or closing; and no pong handler or close handler has a call
\* to the closed store rejected.
C36_StoreClosedLast ==
    /\ StoreClosed =>
           /\ ~Accepting
           /\ HeartbeatStopped
           /\ \A w \in Sockets : ws[w].readyState \notin {"open", "closing"}
    /\ \A t \in DOMAIN tasks : t.op \notin {"refreshRejected", "safeClearRejected"}

\* A close handler has its safeClearIfOwned rejected by the closed store.
C36_DisconnectAfterQuit == \E t \in DOMAIN tasks : t.op = "safeClearRejected"

\* A heartbeat ping is answered after the store was closed, and the refresh of
\* the pong handler is rejected.
C36_HeartbeatAfterQuit == \E t \in DOMAIN tasks : t.op = "refreshRejected"


\* ------------------------------------------- connection-count backend
\* The backend that counts a user's connections in the store key
\* connections:{email} and writes presence:{email} without an owner.  The
\* counter of each user is kept in flips, ws.email in the userKey field of ws,
\* and a presence key holds the value '1'.  Every handler completes within the
\* TTL of the keys it writes.  Each action is a handler's code from one await
\* to the next, with the store command issued there.

CountSockets == {"w1", "w2"}
CountEmails == {EmailAraw, EmailD}
PresentValue == "1"

\* publishPresenceUpdate: PUBLISH on presence:updates, which every server
\* instance receives.
PublishedUpdate(u, online) == [email |-> u, online |-> online, targetServers |-> Servers]

\* handleConnection
CountConnect(w) ==
    /\ ws[w].readyState = "none"
    /\ ws' = [ws EXCEPT ![w] = [readyState |-> "open", isAlive |-> TRUE,
                                 userKey |-> NoKey, nextPresenceRefreshAt |-> 0,
                                 pinged |-> FALSE, answers |-> TRUE]]
    /\ UNCHANGED <<now, storeVars, srvOther, clients, subscriptions, watchedBy,
                   connectionsByIp, subscribeRateLimit, watchers, channel, tasks, reply,
                   nextHeartbeatAt, focusLog>>

\* handleAuth up to its first await: ws.email, the clients map, and the INCR of
\* incrementConnectionCount.
CountAuth(w, email) ==
    LET u == normalizeEmail(email)
    IN  /\ ws[w].readyState = "open"
        /\ email # <<>>
        /\ isValidEmail(u)
        /\ ws' = [ws EXCEPT ![w].userKey = u]
        /\ clients' = [clients EXCEPT ![u] = [has |-> TRUE, set |-> @.set \cup {w}]]
        /\ flips' = [flips EXCEPT ![u] = @ + 1]
        /\ tasks' = Spawn(tasks, Task("incremented", w, u, FALSE, {}, {}, flips[u] + 1))
        /\ UNCHANGED <<now, storeVars, config, calls, histVars, basicVars, subscriptions,
                       watchedBy, connectionsByIp, subscribeRateLimit, watchers, channel,
                       reply, nextHeartbeatAt, focusLog>>

\* setOnline: wasOnline = EXISTS presence:{email}
CountSetOnlineExists(t) ==
    /\ BagIn(t, tasks)
    /\ t.op = "incremented"
    /\ tasks' = Spawn(Finish(tasks, t),
                      Task("wasOnline", t.w, t.u, presence[t.u].val = Null, {}, {}, t.t))
    /\ UNCHANGED <<now, storeVars, srvOther, ws, clients, subscriptions, watchedBy,
                   connectionsByIp, subscribeRateLimit, watchers, channel, reply,
                   nextHeartbeatAt, focusLog>>

\* setOnline: SET presence:{email} '1' EX ttl; returns wasOnline === 0.
CountSetOnlineSet(t) ==
    /\ BagIn(t, tasks)
    /\ t.op = "wasOnline"
    /\ presence' = [presence EXCEPT ![t.u] = [val |-> PresentValue, exp |-> now + TtlMs]]
    /\ tasks' = Spawn(Finish(tasks, t), Task("online", t.w, t.u, t.flag, {}, {}, t.t))
    /\ UNCHANGED <<now, lastSeen, srvOther, ws, clients, subscriptions, watchedBy,
                   connectionsByIp, subscribeRateLimit, watchers, channel, reply,
                   nextHeartbeatAt, focusLog>>

\* handleAuth after getLastSeen: auth:ok, and the online update when the status
\* changed.
CountAuthReply(t) ==
    /\ BagIn(t, tasks)
    /\ t.op = "online"
    /\ reply' = [reply EXCEPT ![t.w] =
                    IF ws[t.w].readyState = "open"
                        THEN [type |-> "auth:ok", detail |-> "", email |-> t.u]
                        ELSE @]
    /\ channel' = IF t.flag THEN channel \cup {PublishedUpdate(t.u, TRUE)} ELSE channel
    /\ tasks' = Finish(tasks, t)
    /\ UNCHANGED <<now, storeVars, srvOther, ws, clients, subscriptions, watchedBy,
                   connectionsByIp, subscribeRateLimit, watchers, nextHeartbeatAt,
                   focusLog>>

\* The close handler up to its await: an authenticated socket leaves the clients
\* map; the DECR of decrementConnectionCount.
CountClose(w) ==
    LET u == ws[w].userKey
    IN  /\ ws[w].readyState = "open"
        /\ ws' = [ws EXCEPT ![w].readyState = "closed"]
        /\ IF u = NoKey
              THEN UNCHANGED <<clients, flips, tasks>>
              ELSE /\ clients' = Detached(w)
                   /\ flips' = [flips EXCEPT ![u] = @ - 1]
                   /\ tasks' = Spawn(tasks, Task("decremented", w, u, FALSE, {}, {},
                                                 flips[u] - 1))
        /\ UNCHANGED <<now, storeVars, config, calls, histVars, basicVars, subscriptions,
                       watchedBy, connectionsByIp, subscribeRateLimit, watchers, channel,
                       reply, nextHeartbeatAt, focusLog>>

\* decrementConnectionCount resumed: count <= 0 deletes the counter and returns
\* 0, else EXPIRE and count; the handler goes on only when it got 0.
CountDecrementResume(t) ==
    /\ BagIn(t, tasks)
    /\ t.op = "decremented"
    /\ IF t.t <= 0
          THEN /\ flips' = [flips EXCEPT ![t.u] = 0]
               /\ tasks' = Spawn(Finish(tasks, t), Task("last", t.w, t.u, FALSE, {}, {}, 0))
          ELSE /\ flips' = flips
               /\ tasks' = Finish(tasks, t)
    /\ UNCHANGED <<now, storeVars, config, calls, histVars, basicVars, ws, clients,
                   subscriptions, watchedBy, connectionsByIp, subscribeRateLimit,
                   watchers, channel, reply, nextHeartbeatAt, focusLog>>

\* setOffline: updateLastSeen
CountSetOfflineLastSeen(t) ==
    /\ BagIn(t, tasks)
    /\ t.op = "last"
    /\ lastSeen' = [lastSeen EXCEPT ![t.u] = now]
    /\ tasks' = Spawn(Finish(tasks, t), Task("lastSeen", t.w, t.u, FALSE, {}, {}, 0))
    /\ UNCHANGED <<now, presence, srvOther, ws, clients, subscriptions, watchedBy,
                   connectionsByIp, subscribeRateLimit, watchers, channel, reply,
                   nextHeartbeatAt, focusLog>>

\* setOffline: getConnectionCount, GET of the counter (0 when it is absent).
CountSetOfflineGet(t) ==
    /\ BagIn(t, tasks)
    /\ t.op = "lastSeen"
    /\ tasks' = Spawn(Finish(tasks, t), Task("count", t.w, t.u, FALSE, {}, {}, flips[t.u]))
    /\ UNCHANGED <<now, storeVars, srvOther, ws, clients, subscriptions, watchedBy,
                   connectionsByIp, subscribeRateLimit, watchers, channel, reply,
                   nextHeartbeatAt, focusLog>>

\* setOffline: DEL presence:{email} when the count is 0; returns whether it did.
CountSetOfflineDel(t) ==
    /\ BagIn(t, tasks)
    /\ t.op = "count"
    /\ IF t.t = 0
          THEN /\ presence' = [presence EXCEPT ![t.u] = Absent]
               /\ tasks' = Spawn(Finish(tasks, t),
                                 Task("offline", t.w, t.u, TRUE, {}, {}, 0))
          ELSE /\ presence' = presence
               /\ tasks' = Finish(tasks, t)
    /\ UNCHANGED <<now, lastSeen, srvOther, ws, clients, subscriptions, watchedBy,
                   connectionsByIp, subscribeRateLimit, watchers, channel, reply,
                   nextHeartbeatAt, focusLog>>

\* The close handler resumed with statusChanged: the offline update.
CountOfflinePublish(t) ==
    /\ BagIn(t, tasks)
    /\ t.op = "offline"
    /\ channel' = channel \cup {PublishedUpdate(t.u, FALSE)}
    /\ tasks' = Finish(tasks, t)
    /\ UNCHANGED <<now, storeVars, srvOther, ws, clients, subscriptions, watchedBy,
                   connectionsByIp, subscribeRateLimit, watchers, reply,
                   nextHeartbeatAt, focusLog>>

NextCount ==
    \/ \E w \in CountSockets : CountConnect(w)
    \/ \E w \in CountSockets, e \in CountEmails : ws[w].userKey = NoKey /\ CountAuth(w, e)
    \/ \E t \in DOMAIN tasks : CountSetOnlineExists(t)
    \/ \E t \in DOMAIN tasks : CountSetOnlineSet(t)
    \/ \E t \in DOMAIN tasks : CountAuthReply(t)
    \/ \E w \in CountSockets : CountClose(w)
    \/ \E t \in DOMAIN tasks : CountDecrementResume(t)
    \/ \E t \in DOMAIN tasks : CountSetOfflineLastSeen(t)
    \/ \E t \in DOMAIN tasks : CountSetOfflineGet(t)
    \/ \E t \in DOMAIN tasks : CountSetOfflineDel(t)
    \/ \E t \in DOMAIN tasks : CountOfflinePublish(t)

SpecCount == InitFocus /\ [][NextCount]_vars

\* The open sockets authenticated as u.
Authenticated(u) == {w \in Sockets : ws[w].readyState = "open" /\ ws[w].userKey = u}

\* C37: when no handler is in flight, a user with an open authenticated socket
\* has a presence key.
C37_OnlineWhileConnected ==
    tasks = EmptyBag => \A u \in UserKeys : Authenticated(u) # {} => presence[u].val # Null

\* C37, its first part: a step deletes the presence key of u or publishes the
\* offline update of u only when no open socket is authenticated as u.
C37_OfflineOnlyWhenLast ==
    [][\A u \in UserKeys :
          (\/ presence[u].val # Null /\ presence'[u].val = Null
           \/ PublishedUpdate(u, FALSE) \in channel' \ channel)
              => Authenticated(u) = {}]_vars


\* ------------------------------------------- watcher membership

\* The subscribe handlers of socket w that are suspended at addWatcherBatch.
Registering(w) == {t \in DOMAIN tasks : t.op = "subscribe" /\ t.w = w}

\* C38: while an open socket of this server has u in its focus set, and its
\* subscribe handler is past addWatcherBatch, this server is a member of u's
\* watchers key, whatever other servers add or remove.
C38_FocusKeepsWatcher ==
    \A w \in Sockets : \A u \in UserKeys :
        (Focused(w, u) /\ Registering(w) = {}) => ServerId \in watchers[u]

\* A flip of u is published to other servers only, while a socket of this
\* server has u in its focus set.
C38_FlipNotRouted ==
    \E w \in Sockets : \E m \in channel :
        /\ Focused(w, m.email)
        /\ Registering(w) = {}
        /\ ServerId \notin m.targetServers


\* ------------------------------------------- takeover by a second server
\* As the ceded-ownership specification, with the second server's session of
\* the user closing cleanly.

\* Another server's safeClearIfOwned, as the store sees it: updateLastSeen and
\* the delete script, which finds that server's id in the key.
RemoteRelease(u) ==
    /\ presence[u].val = RemoteServerId
    /\ presence' = [presence EXCEPT ![u] = DeleteIfOwner(@, RemoteServerId).key]
    /\ lastSeen' = [lastSeen EXCEPT ![u] = now]
    /\ UNCHANGED <<now, srvOther, serverVars>>

NextTakeover ==
    \/ NextCeded
    \/ \E u \in {normalizeEmail(e) : e \in HeartbeatEmails} \cap UserKeys : RemoteRelease(u)

SpecTakeover == InitCeded /\ [][NextTakeover]_vars

\* Socket w is open, authenticated as u, and its client answers the pings.
LiveSession(w, u) ==
    ws[w].readyState = "open" /\ ws[w].userKey = u /\ ws[w].answers

\* C39: a user with a live authenticated session whose client answers the
\* pings has a presence key.
C39_OnlineWhileLive ==
    \A w \in Sockets : \A u \in UserKeys : LiveSession(w, u) => isOnline(u)

\* The pong handler of a live session has run the refresh script after the
\* second server released the key: the script refreshed nothing and the user
\* still has no presence key.
C39_NotReclaimed ==
    \E w \in Sockets : \E u \in UserKeys :
        /\ LiveSession(w, u)
        /\ ~isOnline(u)
        /\ lastSeen[u] # NoTime
        /\ \E t \in DOMAIN tasks : t.op = "pong" /\ t.w = w /\ ~t.flag /\ t.t > lastSeen[u]


\* ------------------------------------------- close during auth
\* One socket that authenticates, watches a user, authenticates again and
\* closes, with up to MaxSessionTasks of its handlers suspended together, and
\* a second server that watches the same users.

LateEmails == {EmailA, EmailD}

NextLateClose ==
    \/ Connect(Watcher, TRUE)
    \/ \E e \in LateEmails : CanRequestMore /\ HandleAuth(Watcher, e)
    \/ \E t \in DOMAIN tasks : AuthGetLastSeen(t)
    \/ \E t \in DOMAIN tasks : AuthReply(t)
    \/ \E t \in DOMAIN tasks : Publish(t)
    \/ \E m \in DeliveryMessages : CanRequest /\ HandleSubscribe(Watcher, m)
    \/ \E t \in DOMAIN tasks : SubscribeGetPresence(t)
    \/ \E t \in DOMAIN tasks : SubscribeReply(t)
    \/ HandleDisconnect(Watcher)
    \/ \E t \in DOMAIN tasks : DisconnectResume(t)
    \/ \E t \in DOMAIN tasks : SafeClearDelete(t)
    \/ \E t \in DOMAIN tasks : DisconnectPublish(t)
    \/ \E e \in LateEmails, on \in BOOLEAN : RemoteWatch({normalizeEmail(e)}, on)

SpecLateClose == InitFocus /\ [][NextLateClose]_vars

\* C40: when the auth handler of a socket, resumed from a claim that found no
\* key, goes on to publish the online flip of u to the servers watching u, the
\* socket is open.
C40_NoFlipForClosed ==
    [][\A u \in UserKeys : \A t \in Added("publish", u, TRUE) :
          (Resumed("auth", u, TRUE) # {} /\ t.servers # {})
              => ws[t.w].readyState = "open"]_vars

\* C40, the presence key: when the socket has closed and no handler is in
\* flight, this server does not hold the key of the user the socket had last
\* authenticated as (the user of the disconnect handling's last task).
C40_NoKeyLeftBehind ==
    [][\A u \in UserKeys :
          (/\ Resumed("cleared", u, TRUE) \cup Resumed("cleared", u, FALSE) # {}
           /\ ws[Watcher].readyState = "closed")
              => presence'[u].val # ServerId]_vars

====
